---- MODULE Spec2Model ----
(***************************************************************************)
(* A model of the gbrs Game Boy emulator core: the CPU's step (interrupt   *)
(* dispatch, IME state machine, HALT), the T-cycle counts of execute, the  *)
(* MMU's step and register writes, the timer, and the PPU's mode state     *)
(* machine with its two display buffers.                                   *)
(***************************************************************************)
EXTENDS Integers, Naturals, Sequences, FiniteSets, TLC

(***************************************************************************)
(* Bounds of the model (not program constants).                            *)
(***************************************************************************)
\* the cartridge specification stops the wall clock at this many seconds
MaxWallClock == 2
\* the cartridge specification stops writing once the clock registers were updated this often
MaxRtcUpdates == 2
\* the timer specification stops stepping once this many T-cycles have elapsed
MaxTimerCycles == 1400
\* the timer specification accepts TAC, TIMA and TMA writes in the first T-cycles only
MaxTimerSetupCycles == 8
\* the PPU specification stops accepting LCDC writes after this many
MaxLcdcWrites == 2
\* the CPU specifications stop stepping once this many T-cycles have elapsed
MaxTCycles == 72

\* writes of single bytes of memory made before and between OAM DMA transfers
MaxMemWrites == 2

\* bytes of high RAM the stack of the flag-register programs may use
StackDepth == 4

\* scan lines drawn per scene
MaxDraws == 1

\* T-cycles the CPU runs with the timer and the LCD on
MaxIrqTCycles == 40

\* jumps of the wall clock between the updates of the real-time clock
MaxRtcElapses == 2

\* instructions executed by the flag-register programs
MaxFlagOps == 5

\* fetches and jumps made from the initial PC
MaxPcCalls == 1

(***************************************************************************)
(* Program constants.                                                      *)
(***************************************************************************)
OamScanCycles == 80
PixelTransferCycles == 172
HBlankCycles == 204
VBlankLineCycles == 456
VisibleLines == 144
TotalLines == 154
InterruptDispatchCycles == 20
HaltedStepCycles == 4
MaxInstructionCycles == 24

\* mmu::InterruptKind
InterruptKind == {"Vblank", "LcdStat", "Timer", "Serial", "Joypad"}

\* the bit of IE / IF each InterruptKind occupies (its enum discriminant)
InterruptBit(k) ==
    CASE k = "Vblank" -> 0
      [] k = "LcdStat" -> 1
      [] k = "Timer" -> 2
      [] k = "Serial" -> 3
      [] k = "Joypad" -> 4

\* U8Ext::bit: bit i (0 = least significant) of a byte
Bit(byte, i) == (byte \div (2 ^ i)) % 2 = 1

\* EnumSet::<InterruptKind>::from_u8_truncated
from_u8_truncated(byte) == {k \in InterruptKind : Bit(byte, InterruptBit(k))}

\* u16::to_le_bytes, as <<lo, hi>>
to_le_bytes(word) == <<word % 256, word \div 256>>

VARIABLES
    cpu,            \* Cpu without its mmu: regs, ime, is_halted
    mmu,            \* Mmu without its ppu: IE, IF, high RAM, timer, divider
    ppu,            \* Ppu: the mode state machine's fields and the two display buffers
    ppu_ret,        \* the interrupt set returned by the last Ppu::step
    obs,            \* what the last Cpu::step did (serviced sources, state at the fetch, charges)
    rom,            \* the program bytes at address 0 (scenario specification only)
    exec,           \* one call of Cpu::execute: its inputs and the T-cycles it returned
    lcdc_writes,    \* number of LCDC writes made so far (bounded by MaxLcdcWrites)
    tim,            \* what the Timer::update calls of the last Mmu::step returned, and a tick count
    cart,           \* the cartridge: NoMbc, Mbc1 or Mbc3
    wall,           \* the wall clock (SystemTime::now), in seconds
    joy,            \* the last byte written to 0xFF00 and the last byte read from it
    mem,            \* work RAM and object attribute memory, and the last OAM DMA
    io,             \* the last access of an I/O address without a register: what it was and what a read gave
    build,          \* the build profile: whether integer overflow is checked (panics) or wraps
    scene           \* the object size, the background's colour ids and the last drawn DisplayLine

timer_aux == <<tim>>

cart_aux == <<cart, wall>>

\* the variables of the specifications of single accesses and single calls
late_aux == <<io, build, scene>>

io_aux == <<joy, mem, late_aux>>

\* the variables only the component specifications (timer, cartridge, ...) change
aux == <<timer_aux, cart_aux, io_aux>>

vars == <<cpu, mmu, ppu, ppu_ret, obs, rom, exec, lcdc_writes, tim, cart, wall, joy, mem, io, build, scene>>

(***************************************************************************)
(* Ppu                                                                     *)
(***************************************************************************)
\* DisplayLine::black_line(), the content of both buffers after Ppu::new
black_line == "black_line"

\* Ppu::draw_scan_line: the line starts as white_line when the background is
\* disabled; with the background enabled every pixel is overwritten from the
\* tile maps, which the model summarises as one composited line
draw_scan_line(p) == IF p.bg_enabled THEN "bg_line" ELSE "white_line"

\* Color::from_be_bits
color_from_be_bits(hi, lo) ==
    CASE ~hi /\ ~lo -> "White"
      [] ~hi /\ lo -> "LightGray"
      [] hi /\ ~lo -> "DarkGray"
      [] hi /\ lo -> "Black"

\* Color::to_be_bits, as <<bits[0], bits[1]>>: bits[0] is the higher-order bit
color_to_be_bits(color) ==
    CASE color = "White" -> <<FALSE, FALSE>>
      [] color = "LightGray" -> <<FALSE, TRUE>>
      [] color = "DarkGray" -> <<TRUE, FALSE>>
      [] color = "Black" -> <<TRUE, TRUE>>

\* impl From<u8> for ColorPalette: the colors of ColorId 0 .. 3, as fields 1 .. 4
ColorPaletteFrom(value) ==
    <<color_from_be_bits(Bit(value, 1), Bit(value, 0)),
      color_from_be_bits(Bit(value, 3), Bit(value, 2)),
      color_from_be_bits(Bit(value, 5), Bit(value, 4)),
      color_from_be_bits(Bit(value, 7), Bit(value, 6))>>

\* the byte of eight bits given highest-order bit first (U8Ext::from_bits)
BitsToByte(b7, b6, b5, b4, b3, b2, b1, b0) ==
    LET v(b, w) == IF b THEN w ELSE 0
    IN  v(b7, 128) + v(b6, 64) + v(b5, 32) + v(b4, 16) + v(b3, 8) + v(b2, 4) + v(b1, 2) + v(b0, 1)

\* impl From<ColorPalette> for u8: from_bits([id3[1], id3[0], id2[1], id2[0],
\* id1[1], id1[0], id0[1], id0[0]]), indices counted from 0 as in the source
ColorPaletteInto(value) ==
    LET id0 == color_to_be_bits(value[1])
        id1 == color_to_be_bits(value[2])
        id2 == color_to_be_bits(value[3])
        id3 == color_to_be_bits(value[4])
    IN  BitsToByte(id3[2], id3[1], id2[2], id2[1], id1[2], id1[1], id0[2], id0[1])

PpuNew ==
    [ line |-> 0,
      cycles_in_mode |-> 0,
      mode |-> "ScanlineOAM",
      lcd_enabled |-> FALSE,
      bg_enabled |-> FALSE,
      lyc |-> 0,
      bg_color_palette |-> ColorPaletteFrom(0),
      obj_color_palettes |-> [i \in 0 .. 1 |-> ColorPaletteFrom(0)],
      lcd_status |-> [ lyc_int_select |-> FALSE, mode_2_int_select |-> FALSE,
                       mode_1_int_select |-> FALSE, mode_0_int_select |-> FALSE ],
      lcd_display |-> [l \in 0 .. (VisibleLines - 1) |-> black_line],
      last_full_frame |-> [l \in 0 .. (VisibleLines - 1) |-> black_line] ]

should_trigger_lyc_interrupt(p) == p.lcd_status.lyc_int_select /\ p.lyc = p.line

\* PpuStepOAM, had the transition zeroed the accumulator
PpuStepOAMZeroing(p) ==
    IF p.cycles_in_mode >= OamScanCycles
    THEN <<[p EXCEPT !.cycles_in_mode = 0, !.mode = "ScanlineVRAM"], {}>>
    ELSE <<p, {}>>

\* Ppu::step, arm Mode::ScanlineOAM, as <<ppu after the call, returned interrupts>>
PpuStepOAM(p) ==
    IF p.cycles_in_mode >= OamScanCycles
    THEN <<[p EXCEPT !.cycles_in_mode = @ - OamScanCycles, !.mode = "ScanlineVRAM"], {}>>
    ELSE <<p, {}>>

\* Ppu::step, arm Mode::ScanlineVRAM
PpuStepVRAM(p) ==
    IF p.cycles_in_mode >= PixelTransferCycles
    THEN LET q == [p EXCEPT !.cycles_in_mode = @ - PixelTransferCycles,
                            !.mode = "HorizontalBlank"]
             ints == IF p.lcd_status.mode_0_int_select THEN {"LcdStat"} ELSE {}
         IN  IF q.line < VisibleLines
             THEN <<[q EXCEPT !.lcd_display[q.line] = draw_scan_line(q)], ints>>
             ELSE <<q, ints>>
    ELSE <<p, {}>>

\* Ppu::step, arm Mode::HorizontalBlank
PpuStepHBlank(p) ==
    IF p.cycles_in_mode >= HBlankCycles
    THEN LET q == [p EXCEPT !.cycles_in_mode = @ - HBlankCycles, !.line = @ + 1]
             lycInts == IF should_trigger_lyc_interrupt(q) THEN {"LcdStat"} ELSE {}
         IN  IF q.line = VisibleLines
             THEN <<[q EXCEPT !.mode = "VerticalBlank", !.last_full_frame = q.lcd_display],
                    lycInts \cup {"Vblank"}
                    \cup (IF q.lcd_status.mode_1_int_select THEN {"LcdStat"} ELSE {})>>
             ELSE <<[q EXCEPT !.mode = "ScanlineOAM"],
                    lycInts
                    \cup (IF q.lcd_status.mode_2_int_select THEN {"LcdStat"} ELSE {})>>
    ELSE <<p, {}>>

\* the vertical blank arm of Ppu::step, had it held the last line instead of
\* starting the next frame
PpuStepVBlankNoNextFrame(p) ==
    IF p.cycles_in_mode >= VBlankLineCycles
    THEN LET q == [p EXCEPT !.cycles_in_mode = @ - VBlankLineCycles, !.line = @ + 1]
             r == IF q.line = TotalLines
                  THEN [q EXCEPT !.line = TotalLines - 1]
                  ELSE q
         IN  <<r, IF should_trigger_lyc_interrupt(r) THEN {"LcdStat"} ELSE {}>>
    ELSE <<p, {}>>

\* PpuStepVBlank, had it compared LYC with the line before the wrap to 0
PpuStepVBlankLycBeforeWrap(p) ==
    IF p.cycles_in_mode >= VBlankLineCycles
    THEN LET q == [p EXCEPT !.cycles_in_mode = @ - VBlankLineCycles, !.line = @ + 1]
             r == IF q.line = TotalLines
                  THEN [q EXCEPT !.line = 0, !.mode = "ScanlineOAM"]
                  ELSE q
         IN  <<r, IF should_trigger_lyc_interrupt(q) THEN {"LcdStat"} ELSE {}>>
    ELSE <<p, {}>>

\* PpuStepVBlank, had it requested VBlank on every line of the vertical blank
PpuStepVBlankEveryLine(p) ==
    IF p.cycles_in_mode >= VBlankLineCycles
    THEN LET q == [p EXCEPT !.cycles_in_mode = @ - VBlankLineCycles, !.line = @ + 1]
             r == IF q.line = TotalLines
                  THEN [q EXCEPT !.line = 0, !.mode = "ScanlineOAM"]
                  ELSE q
         IN  <<r, (IF should_trigger_lyc_interrupt(r) THEN {"LcdStat"} ELSE {})
                  \cup (IF r.mode = "VerticalBlank" THEN {"Vblank"} ELSE {})>>
    ELSE <<p, {}>>

\* Ppu::step, arm Mode::VerticalBlank
PpuStepVBlank(p) ==
    IF p.cycles_in_mode >= VBlankLineCycles
    THEN LET q == [p EXCEPT !.cycles_in_mode = @ - VBlankLineCycles, !.line = @ + 1]
             r == IF q.line = TotalLines
                  THEN [q EXCEPT !.line = 0, !.mode = "ScanlineOAM"]
                  ELSE q
         IN  <<r, IF should_trigger_lyc_interrupt(r) THEN {"LcdStat"} ELSE {}>>
    ELSE <<p, {}>>

\* Ppu::step, had it run with the LCD off too
PpuStepLcdOffToo(p, t_cycles) ==
    LET q == [p EXCEPT !.cycles_in_mode = @ + t_cycles]
    IN  CASE q.mode = "ScanlineOAM" -> PpuStepOAM(q)
          [] q.mode = "ScanlineVRAM" -> PpuStepVRAM(q)
          [] q.mode = "HorizontalBlank" -> PpuStepHBlank(q)
          [] q.mode = "VerticalBlank" -> PpuStepVBlank(q)

\* Ppu::step
PpuStep(p, t_cycles) ==
    IF ~p.lcd_enabled
    THEN <<p, {}>>
    ELSE LET q == [p EXCEPT !.cycles_in_mode = @ + t_cycles]
         IN  CASE q.mode = "ScanlineOAM" -> PpuStepOAM(q)
               [] q.mode = "ScanlineVRAM" -> PpuStepVRAM(q)
               [] q.mode = "HorizontalBlank" -> PpuStepHBlank(q)
               [] q.mode = "VerticalBlank" -> PpuStepVBlank(q)

\* WriteLcdc, had switching the LCD off left the line counter alone
WriteLcdcKeepLine(p, byte) ==
    LET off == IF ~Bit(byte, 7)
               THEN [p EXCEPT !.mode = "HorizontalBlank", !.cycles_in_mode = 0]
               ELSE p
    IN  [off EXCEPT !.lcd_enabled = Bit(byte, 7), !.bg_enabled = Bit(byte, 0)]

\* Mmu::write_byte, arm 0xFF40 (LCD control): bit 7 is lcd_enable, bit 0 bg_enable
WriteLcdc(p, byte) ==
    LET off == IF ~Bit(byte, 7)
               THEN [p EXCEPT !.line = 0, !.mode = "HorizontalBlank", !.cycles_in_mode = 0]
               ELSE p
    IN  [off EXCEPT !.lcd_enabled = Bit(byte, 7), !.bg_enabled = Bit(byte, 0)]

\* Mmu::write_byte, arm 0xFF41 (LCD status): bits 6..3 are the interrupt selects
WriteStat(p, byte) ==
    [p EXCEPT !.lcd_status = [ lyc_int_select |-> Bit(byte, 6),
                               mode_2_int_select |-> Bit(byte, 5),
                               mode_1_int_select |-> Bit(byte, 4),
                               mode_0_int_select |-> Bit(byte, 3) ]]

\* Mmu::write_byte, arm 0xFF45 (LYC)
WriteLyc(p, byte) == [p EXCEPT !.lyc = byte]

\* Emulator::resolve_display: the grid handed to the host
resolve_display == ppu.lcd_display

(***************************************************************************)
(* Timer                                                                   *)
(***************************************************************************)
\* TimerFrequency::t_cycles_per_tick
t_cycles_per_tick(frequency) ==
    CASE frequency = "F4KiHz" -> 1024
      [] frequency = "F16KiHz" -> 256
      [] frequency = "F64KiHz" -> 64
      [] frequency = "F256KiHz" -> 16

\* Timer::new, with the enabled flag the caller asks for
TimerNew(frequency, enabled) ==
    [ frequency |-> frequency, enabled |-> enabled, tma |-> 0, value |-> 0,
      t_cycles_count |-> 0 ]

\* Timer::update, as <<timer after the call, returned overflow flag>>
TimerUpdate(tm, t_cycles) ==
    IF ~tm.enabled
    THEN <<tm, FALSE>>
    ELSE LET counted == [tm EXCEPT !.t_cycles_count = (@ + t_cycles) % 65536]
         IN  IF counted.t_cycles_count > t_cycles_per_tick(counted.frequency)
             THEN LET ticked == [counted EXCEPT !.value = (@ + 1) % 256]
                  IN  IF ticked.value = 0
                      THEN <<[ticked EXCEPT !.value = ticked.tma], TRUE>>
                      ELSE <<ticked, FALSE>>
             ELSE <<counted, FALSE>>

(***************************************************************************)
(* Mmu.  The operators below work on a machine record                      *)
(*   [cpu, mmu, ppu, ppu_ret, obs, raised, serviced, was_halted,           *)
(*    timer_ret, divider_ret]                                              *)
(* holding the values of the variables of the same names and, for the      *)
(* Cpu::step call in progress, the interrupts its Mmu::step calls have     *)
(* requested (raised), the sources it has serviced (serviced), whether the *)
(* CPU was halted when the call began (was_halted), and what the two       *)
(* Timer::update calls of the last Mmu::step returned.                     *)
(***************************************************************************)
HighRam == 65408 .. 65534

\* joypad::Button
Button == {"A", "B", "Start", "Select", "Up", "Down", "Left", "Right"}

\* U8Ext::bits: the bits of a byte, highest-order bit first
bits(byte) == [i \in 1 .. 8 |-> Bit(byte, 8 - i)]

\* U8Ext::from_bits: the byte of eight bits given highest-order bit first
from_bits(bs) ==
    LET b(i) == IF bs[i] THEN 2 ^ (8 - i) ELSE 0
    IN  b(1) + b(2) + b(3) + b(4) + b(5) + b(6) + b(7) + b(8)

\* JoypadSelect::from_be_bits, had it given each select bit the other group
from_be_bits_swapped(hi, lo) ==
    CASE ~hi /\ ~lo -> "All"
      [] ~hi /\ lo -> "DPad"
      [] hi /\ ~lo -> "Buttons"
      [] hi /\ lo -> "None"

\* JoypadSelect::from_be_bits
from_be_bits(hi, lo) ==
    CASE ~hi /\ ~lo -> "All"
      [] ~hi /\ lo -> "Buttons"
      [] hi /\ ~lo -> "DPad"
      [] hi /\ lo -> "None"

\* JoypadSelect::to_be_bits, as <<hi, lo>>
to_be_bits(select) ==
    CASE select = "Buttons" -> <<FALSE, TRUE>>
      [] select = "DPad" -> <<TRUE, FALSE>>
      [] select = "None" -> <<TRUE, TRUE>>
      [] select = "All" -> <<FALSE, FALSE>>

\* the closure btn_state of Mmu::read_byte, had it reported a pressed button as 1
btn_state_active_high(m, button) == button \in m.mmu.pressed_buttons

\* the closure btn_state of Mmu::read_byte: a pressed button reads 0
btn_state(m, button) == button \notin m.mmu.pressed_buttons

\* Mmu::read_byte, 0xFF00
ReadJoypad(m) ==
    LET select_hi == to_be_bits(m.mmu.joypad_select)[1]
        select_lo == to_be_bits(m.mmu.joypad_select)[2]
    IN  CASE m.mmu.joypad_select = "Buttons" ->
                from_bits(<<TRUE, TRUE, select_hi, select_lo,
                            btn_state(m, "Start"), btn_state(m, "Select"),
                            btn_state(m, "B"), btn_state(m, "A")>>)
          [] m.mmu.joypad_select = "DPad" ->
                from_bits(<<TRUE, TRUE, select_hi, select_lo,
                            btn_state(m, "Down"), btn_state(m, "Up"),
                            btn_state(m, "Left"), btn_state(m, "Right")>>)
          [] m.mmu.joypad_select = "None" ->
                from_bits(<<TRUE, TRUE, TRUE, TRUE, TRUE, TRUE, TRUE, TRUE>>)
          [] m.mmu.joypad_select = "All" ->
                from_bits(<<TRUE, TRUE, select_hi, select_lo,
                            btn_state(m, "Start") \/ btn_state(m, "Down"),
                            btn_state(m, "Select") \/ btn_state(m, "Up"),
                            btn_state(m, "B") \/ btn_state(m, "Left"),
                            btn_state(m, "A") \/ btn_state(m, "Right")>>)

\* Mmu::write_byte, 0xFF00
WriteJoypad(m, byte) ==
    LET select_hi == bits(byte)[3]
        select_lo == bits(byte)[4]
    IN  [m EXCEPT !.mmu.joypad_select = from_be_bits(select_hi, select_lo)]

\* Mmu::set_pressed_buttons
set_pressed_buttons(m, buttons) == [m EXCEPT !.mmu.pressed_buttons = buttons]

JoyNew == [ written |-> <<>>, read |-> <<>> ]

\* the addresses 0xFF00..0xFF7F that have a register: joypad, DIV, TIMA, TMA,
\* TAC, IF, LCDC .. WX (0xFF40..0xFF4B) and the boot ROM latch (0xFF50)
IoRegisters == {65280, 65295, 65360} \cup (65284 .. 65287) \cup (65344 .. 65355)

\* the addresses of the I/O range without a register
IoUnlisted == (65280 .. 65407) \ IoRegisters

\* Mmu::read_byte for an address of the I/O range without a register, as
\* <<byte>>, or <<>> where the match falls through to its panic! arm
ReadIoUnlisted(m, addr) ==
    CASE addr \in {65281, 65282} -> <<0>>
      [] addr \in 65296 .. 65343 -> <<0>>
      [] addr \in {65357, 65359, 65392} -> <<255>>
      [] addr \in 65361 .. 65365 -> <<255>>
      [] addr \in 65384 .. 65387 -> <<255>>
      [] OTHER -> <<>>

\* Mmu::write_byte for an address of the I/O range without a register: the
\* arms are empty, and the fall-through arm only prints
WriteIoUnlisted(m, addr, byte) == m

IoNew == [ addr |-> <<>>, read |-> <<>>, written |-> <<>> ]

\* a build without overflow checks (cargo's release profile)
BuildNew == [ overflow_checks |-> FALSE ]

\* Ppu::obj_size after Ppu::new, a line whose background pixels are all ColorId::Id0,
\* and no scan line drawn yet; draws counts the lines drawn
SceneNew ==
    [ obj_size |-> "Dim8x8", bg_line_color_ids |-> [c \in 0 .. 159 |-> 0], out |-> <<>>,
      draws |-> 0 ]

MmuNew ==
    [ interrupts_enabled |-> {},
      interrupts_requested |-> {},
      high_ram |-> [a \in HighRam |-> 0],
      timer |-> TimerNew("F4KiHz", FALSE),
      divider |-> TimerNew("F16KiHz", TRUE),
      joypad_select |-> "None",
      pressed_buttons |-> {} ]

\* Mmu::step, had it requested the Timer interrupt on a divider overflow too
MmuStepDividerInterrupt(m, t_cycles) ==
    LET tu == TimerUpdate(m.mmu.timer, t_cycles)
        du == TimerUpdate(m.mmu.divider, t_cycles)
        timerInts == IF tu[2] \/ du[2] THEN {"Timer"} ELSE {}
        pu == PpuStep(m.ppu, t_cycles)
    IN  [m EXCEPT !.mmu.timer = tu[1],
                  !.mmu.interrupts_requested = (@ \cup timerInts) \cup pu[2],
                  !.ppu = pu[1],
                  !.ppu_ret = pu[2],
                  !.mmu.divider = du[1],
                  !.raised = (@ \cup timerInts) \cup pu[2],
                  !.timer_ret = tu[2],
                  !.divider_ret = du[2]]

\* Mmu::step
MmuStep(m, t_cycles) ==
    LET tu == TimerUpdate(m.mmu.timer, t_cycles)
        timerInts == IF tu[2] THEN {"Timer"} ELSE {}
        pu == PpuStep(m.ppu, t_cycles)
        du == TimerUpdate(m.mmu.divider, t_cycles)
    IN  [m EXCEPT !.mmu.timer = tu[1],
                  !.mmu.interrupts_requested = (@ \cup timerInts) \cup pu[2],
                  !.ppu = pu[1],
                  !.ppu_ret = pu[2],
                  !.mmu.divider = du[1],
                  !.raised = (@ \cup timerInts) \cup pu[2],
                  !.timer_ret = tu[2],
                  !.divider_ret = du[2]]

\* Mmu::write_byte, arm 0xFF07 (TAC): the frequency bits 1 and 0 select
TacFrequency(byte) ==
    CASE ~Bit(byte, 1) /\ ~Bit(byte, 0) -> "F4KiHz"
      [] ~Bit(byte, 1) /\ Bit(byte, 0) -> "F256KiHz"
      [] Bit(byte, 1) /\ ~Bit(byte, 0) -> "F64KiHz"
      [] Bit(byte, 1) /\ Bit(byte, 0) -> "F16KiHz"

\* the 256-byte pages of work RAM that are modelled (0xC000 and 0xDD00, echoed at 0xE000 and 0xFD00)
WorkRamPages == {0, 29}

\* the modelled indices of Mmu::work_ram: the first DmaLength bytes of every modelled page
WorkRamOffsets == UNION { (page * 256) .. (page * 256 + 159) : page \in WorkRamPages }

\* the initial element of Ppu::obj_attribute_memory
ObjectAttributesNew ==
    [ y_pos |-> 0, x_pos |-> 0, tile_idx |-> 0, bg_over_obj_priority |-> "Zero",
      y_flip |-> FALSE, x_flip |-> FALSE, palette |-> "Zero" ]

\* ObjectAttributes::as_bytes
as_bytes(obj) ==
    <<obj.y_pos, obj.x_pos, obj.tile_idx,
      from_bits(<<obj.bg_over_obj_priority = "One", obj.y_flip, obj.x_flip, obj.palette = "One",
                  FALSE, FALSE, FALSE, FALSE>>)>>

\* Mmu::work_ram and Ppu::obj_attribute_memory after Mmu::new; dma is the last OAM DMA made
MemNew ==
    [ work_ram |-> [a \in WorkRamOffsets |-> 0],
      obj_attribute_memory |-> [i \in 0 .. 39 |-> ObjectAttributesNew],
      dma |-> <<>>,
      writes |-> 0 ]

\* Mmu::read_byte, 0xFE00..=0xFE9F
ReadOam(m, addr) ==
    LET object_entry_idx == (addr - 65024) \div 4
        byte_offset == addr % 4
    IN  as_bytes(m.mem.obj_attribute_memory[object_entry_idx])[byte_offset + 1]

\* Mmu::write_byte, 0xFE00..=0xFE9F
WriteOam(m, addr, byte) ==
    LET object_entry_idx == (addr - 65024) \div 4
        byte_offset == addr % 4
    IN  CASE byte_offset = 0 -> [m EXCEPT !.mem.obj_attribute_memory[object_entry_idx].y_pos = byte]
          [] byte_offset = 1 -> [m EXCEPT !.mem.obj_attribute_memory[object_entry_idx].x_pos = byte]
          [] byte_offset = 2 -> [m EXCEPT !.mem.obj_attribute_memory[object_entry_idx].tile_idx = byte]
          [] byte_offset = 3 ->
                [m EXCEPT !.mem.obj_attribute_memory[object_entry_idx].y_flip = bits(byte)[2],
                          !.mem.obj_attribute_memory[object_entry_idx].x_flip = bits(byte)[3],
                          !.mem.obj_attribute_memory[object_entry_idx].bg_over_obj_priority =
                              IF bits(byte)[1] THEN "One" ELSE "Zero",
                          !.mem.obj_attribute_memory[object_entry_idx].palette =
                              IF bits(byte)[4] THEN "One" ELSE "Zero"]

\* Mmu::read_byte, for the modelled addresses
MmuReadByte(m, addr) ==
    CASE addr \in 49152 .. 57343 -> m.mem.work_ram[addr % 8192]
      [] addr \in 57344 .. 65023 -> m.mem.work_ram[addr % 8192]
      [] addr \in 65024 .. 65183 -> ReadOam(m, addr)
      [] addr = 65280 -> ReadJoypad(m)
      [] addr = 65351 -> ColorPaletteInto(m.ppu.bg_color_palette)
      [] addr = 65352 -> ColorPaletteInto(m.ppu.obj_color_palettes[0])
      [] addr = 65353 -> ColorPaletteInto(m.ppu.obj_color_palettes[1])
      [] addr \in HighRam -> m.mmu.high_ram[addr]

\* one iteration of the OAM DMA loop, had the loop started at offset 1
OamDmaCopySkipFirst(m, source_addr, offset) ==
    IF offset = 0
    THEN m
    ELSE WriteOam(m, 65024 + offset, MmuReadByte(m, source_addr + offset))

\* Mmu::write_byte, 0xFF46: one iteration of the loop of the OAM DMA transfer
OamDmaCopy(m, source_addr, offset) ==
    WriteOam(m, 65024 + offset, MmuReadByte(m, source_addr + offset))

\* Mmu::write_byte, 0xFF46: the iterations lo .. hi - 1 of the loop, in order
\* (the first half of the range, then the second on its result)
RECURSIVE OamDma(_, _, _, _)
OamDma(m, source_addr, lo, hi) ==
    IF hi = lo
    THEN m
    ELSE IF hi = lo + 1
         THEN OamDmaCopy(m, source_addr, lo)
         ELSE LET mid == (lo + hi) \div 2
              IN  CHOOSE done \in { OamDma(half, source_addr, mid, hi) :
                                        half \in { OamDma(m, source_addr, lo, mid) } } : TRUE

\* Mmu::write_byte, for the modelled addresses: work RAM and its echo, OAM,
\* the joypad (0xFF00), DIV, TIMA, TMA, TAC (0xFF04..0xFF07), IF (0xFF0F),
\* LCDC (0xFF40), STAT (0xFF41), LYC (0xFF45), DMA (0xFF46), high RAM and IE (0xFFFF)
MmuWriteByte(m, addr, byte) ==
    CASE addr \in 49152 .. 57343 -> [m EXCEPT !.mem.work_ram[addr % 8192] = byte]
      [] addr \in 57344 .. 65023 -> [m EXCEPT !.mem.work_ram[addr % 8192] = byte]
      [] addr \in 65024 .. 65183 -> WriteOam(m, addr, byte)
      [] addr = 65350 -> OamDma(m, byte * 256, 0, 160)
      [] addr = 65351 -> [m EXCEPT !.ppu.bg_color_palette = ColorPaletteFrom(byte)]
      [] addr = 65352 -> [m EXCEPT !.ppu.obj_color_palettes[0] = ColorPaletteFrom(byte)]
      [] addr = 65353 -> [m EXCEPT !.ppu.obj_color_palettes[1] = ColorPaletteFrom(byte)]
      [] addr \in HighRam -> [m EXCEPT !.mmu.high_ram[addr] = byte]
      [] addr = 65280 -> WriteJoypad(m, byte)
      [] addr = 65284 -> [m EXCEPT !.mmu.divider.value = 0]
      [] addr = 65285 -> [m EXCEPT !.mmu.timer.value = byte]
      [] addr = 65286 -> [m EXCEPT !.mmu.timer.tma = byte]
      [] addr = 65287 -> [m EXCEPT !.mmu.timer.enabled = Bit(byte, 2),
                                   !.mmu.timer.frequency = TacFrequency(byte)]
      [] addr = 65295 -> [m EXCEPT !.mmu.interrupts_requested = from_u8_truncated(byte)]
      [] addr = 65344 -> [m EXCEPT !.ppu = WriteLcdc(@, byte)]
      [] addr = 65345 -> [m EXCEPT !.ppu = WriteStat(@, byte)]
      [] addr = 65349 -> [m EXCEPT !.ppu = WriteLyc(@, byte)]
      [] addr = 65535 -> [m EXCEPT !.mmu.interrupts_enabled = from_u8_truncated(byte)]


(***************************************************************************)
(* Cartridge.  ROM is modelled at the first and the last offset of every   *)
(* bank, RAM at the first offset of every bank; an access that panics (an  *)
(* unimplemented register, an index out of bounds) sets panicked and ends  *)
(* the run of the cartridge.                                               *)
(***************************************************************************)
\* number of 16 KiB ROM banks (header byte 0x0148 = 1) and of 8 KiB RAM
\* banks (header byte 0x0149 = 3) of the modelled MBC1 and MBC3 cartridges
NumRomBanks == 4
NumRamBanks == 4

RomBankSize == 16384
RamBankSize == 8192

\* the offsets of a ROM bank and of a RAM bank the model keeps
RomOffsets == {0, RomBankSize - 1}
RamOffsets == {0}

\* the byte of the game ROM at an offset of the ROM file
GameRom(offset) == (7 * (offset \div RomBankSize) + ((offset % RomBankSize) % 5) + 1) % 256

\* NoMbc::from_game_rom
NoMbcNew ==
    [ kind |-> "NoMbc", panicked |-> FALSE,
      rom |-> [a \in {b * RomBankSize + o : b \in 0 .. 1, o \in RomOffsets} |-> GameRom(a)],
      ext_ram |-> [o \in RamOffsets |-> 0] ]

\* parse_banks
RomBanks == [b \in 0 .. (NumRomBanks - 1) |-> [o \in RomOffsets |-> GameRom(b * RomBankSize + o)]]

RamBanks == [b \in 0 .. (NumRamBanks - 1) |-> [o \in RamOffsets |-> 0]]

\* Mbc1::from_game_rom
Mbc1New ==
    [ kind |-> "Mbc1", panicked |-> FALSE,
      rom_banks |-> RomBanks, rom_bank_idx |-> 1,
      ram_banks |-> RamBanks, ram_bank_idx |-> 0,
      ram_enable |-> FALSE ]

\* Mbc3::from_game_rom, made at wall-clock time now; update_calls counts
\* the calls of RealTimeClockRegisters::update
Mbc3New(now) ==
    [ kind |-> "Mbc3", panicked |-> FALSE,
      rom_banks |-> RomBanks, rom_bank_idx |-> 1,
      ram_banks |-> RamBanks,
      ram_bank_or_rtc_select |-> [rtc |-> "Ram", idx |-> 0],
      clock_registers |-> [ seconds |-> 0, minutes |-> 0, hours |-> 0, days_low |-> 0,
                            days_hi_bit |-> FALSE, day_counter_carry |-> FALSE,
                            last_update_time |-> now, update_calls |-> 0 ],
      enable_ram_and_rtc |-> FALSE,
      latch_state |-> "Latched" ]

\* a cartridge access that panics
CartPanic(c) == [c EXCEPT !.panicked = TRUE]

\* NoMbc::read, as <<byte>>, or <<>> for a panic
NoMbcRead(c, addr) ==
    CASE addr \in 0 .. 32767 -> <<c.rom[addr]>>
      [] addr \in 40960 .. 49151 -> <<c.ext_ram[addr - 40960]>>
      [] OTHER -> <<>>

\* NoMbc::write
NoMbcWrite(c, addr, byte) ==
    CASE addr \in 0 .. 32767 -> c
      [] addr \in 40960 .. 49151 -> [c EXCEPT !.ext_ram[addr - 40960] = byte]
      [] OTHER -> CartPanic(c)

\* Mbc1::read, had it read the bank 0 region through the selected ROM bank
Mbc1ReadBanked(c, addr) ==
    CASE addr \in 0 .. 16383 ->
            IF c.rom_bank_idx - 1 \in DOMAIN c.rom_banks
            THEN <<c.rom_banks[c.rom_bank_idx - 1][addr]>>
            ELSE <<>>
      [] addr \in 16384 .. 32767 ->
            IF c.rom_bank_idx \in DOMAIN c.rom_banks
            THEN <<c.rom_banks[c.rom_bank_idx][addr - 16384]>>
            ELSE <<>>
      [] addr \in 40960 .. 49151 ->
            IF c.ram_enable
            THEN IF c.ram_bank_idx \in DOMAIN c.ram_banks
                 THEN <<c.ram_banks[c.ram_bank_idx][addr - 40960]>>
                 ELSE <<>>
            ELSE <<255>>
      [] OTHER -> <<>>

\* Mbc1::read
Mbc1Read(c, addr) ==
    CASE addr \in 0 .. 16383 -> <<c.rom_banks[0][addr]>>
      [] addr \in 16384 .. 32767 ->
            IF c.rom_bank_idx \in DOMAIN c.rom_banks
            THEN <<c.rom_banks[c.rom_bank_idx][addr - 16384]>>
            ELSE <<>>
      [] addr \in 40960 .. 49151 ->
            IF c.ram_enable
            THEN IF c.ram_bank_idx \in DOMAIN c.ram_banks
                 THEN <<c.ram_banks[c.ram_bank_idx][addr - 40960]>>
                 ELSE <<>>
            ELSE <<255>>
      [] OTHER -> <<>>

\* Mbc1::write, had it enabled the RAM for the byte 0x0A only
Mbc1WriteWholeByte(c, addr, byte) ==
    CASE addr \in 0 .. 8191 -> [c EXCEPT !.ram_enable = (byte = 10)]
      [] addr \in 8192 .. 16383 ->
            [c EXCEPT !.rom_bank_idx = IF byte % 32 = 0 THEN 1 ELSE byte % 32]
      [] addr \in 16384 .. 24575 -> [c EXCEPT !.ram_bank_idx = byte % 4]
      [] addr \in 24576 .. 32767 -> CartPanic(c)
      [] addr \in 40960 .. 49151 ->
            IF c.ram_enable
            THEN IF c.ram_bank_idx \in DOMAIN c.ram_banks
                 THEN [c EXCEPT !.ram_banks[c.ram_bank_idx][addr - 40960] = byte]
                 ELSE CartPanic(c)
            ELSE c
      [] OTHER -> CartPanic(c)

\* Mbc1::write
Mbc1Write(c, addr, byte) ==
    CASE addr \in 0 .. 8191 -> [c EXCEPT !.ram_enable = (byte % 16 = 10)]
      [] addr \in 8192 .. 16383 ->
            [c EXCEPT !.rom_bank_idx = IF byte % 32 = 0 THEN 1 ELSE byte % 32]
      [] addr \in 16384 .. 24575 -> [c EXCEPT !.ram_bank_idx = byte % 4]
      [] addr \in 24576 .. 32767 -> CartPanic(c)
      [] addr \in 40960 .. 49151 ->
            IF c.ram_enable
            THEN IF c.ram_bank_idx \in DOMAIN c.ram_banks
                 THEN [c EXCEPT !.ram_banks[c.ram_bank_idx][addr - 40960] = byte]
                 ELSE CartPanic(c)
            ELSE c
      [] OTHER -> CartPanic(c)

\* RtcUpdate, had it stored the overflow test in the carry
RtcUpdateCarryNotSticky(r, now) ==
    LET called == [r EXCEPT !.update_calls = @ + 1]
        elapsed == IF now > r.last_update_time THEN now - r.last_update_time ELSE 0
        total_seconds == r.seconds + elapsed
        total_minutes == r.minutes + (total_seconds \div 60)
        total_hours == r.hours + (total_minutes \div 60)
        total_days == (IF r.days_hi_bit THEN 256 ELSE 0) + r.days_low + (total_hours \div 24)
    IN  IF elapsed = 0
        THEN called
        ELSE [called EXCEPT !.last_update_time = now,
                            !.seconds = total_seconds % 60,
                            !.minutes = total_minutes % 60,
                            !.hours = total_hours % 24,
                            !.day_counter_carry = total_days > 511,
                            !.days_low = total_days % 256,
                            !.days_hi_bit = (total_days % 512) >= 256]

\* RealTimeClockRegisters::update, at wall-clock time now
RtcUpdate(r, now) ==
    LET called == [r EXCEPT !.update_calls = @ + 1]
        elapsed == IF now > r.last_update_time THEN now - r.last_update_time ELSE 0
        total_seconds == r.seconds + elapsed
        total_minutes == r.minutes + (total_seconds \div 60)
        total_hours == r.hours + (total_minutes \div 60)
        total_days == (IF r.days_hi_bit THEN 256 ELSE 0) + r.days_low + (total_hours \div 24)
    IN  IF elapsed = 0
        THEN called
        ELSE [called EXCEPT !.last_update_time = now,
                            !.seconds = total_seconds % 60,
                            !.minutes = total_minutes % 60,
                            !.hours = total_hours % 24,
                            !.day_counter_carry = IF total_days > 511 THEN TRUE ELSE @,
                            !.days_low = total_days % 256,
                            !.days_hi_bit = (total_days % 512) >= 256]

\* Mbc3::read
Mbc3Read(c, addr) ==
    CASE addr \in 0 .. 16383 -> <<c.rom_banks[0][addr]>>
      [] addr \in 16384 .. 32767 ->
            IF c.rom_bank_idx \in DOMAIN c.rom_banks
            THEN <<c.rom_banks[c.rom_bank_idx][addr - 16384]>>
            ELSE <<>>
      [] addr \in 40960 .. 49151 ->
            IF c.enable_ram_and_rtc
            THEN CASE c.ram_bank_or_rtc_select.rtc = "Ram" ->
                        IF c.ram_bank_or_rtc_select.idx \in DOMAIN c.ram_banks
                        THEN <<c.ram_banks[c.ram_bank_or_rtc_select.idx][addr - 40960]>>
                        ELSE <<>>
                   [] c.ram_bank_or_rtc_select.rtc = "Seconds" -> <<c.clock_registers.seconds>>
                   [] c.ram_bank_or_rtc_select.rtc = "Minutes" -> <<c.clock_registers.minutes>>
                   [] c.ram_bank_or_rtc_select.rtc = "Hours" -> <<c.clock_registers.hours>>
                   [] c.ram_bank_or_rtc_select.rtc = "DayCounterLoBits" ->
                        <<c.clock_registers.days_low>>
                   [] c.ram_bank_or_rtc_select.rtc = "DayCounterHiBits" ->
                        <<(IF c.clock_registers.days_hi_bit THEN 1 ELSE 0)
                          + (IF c.clock_registers.day_counter_carry THEN 128 ELSE 0)>>
            ELSE <<255>>
      [] OTHER -> <<>>

\* Mbc3::write, arm 0x4000..=0x5FFF: the RAM bank or RTC register a byte selects
Mbc3Select(c, byte) ==
    CASE byte \in 0 .. 3 -> [c EXCEPT !.ram_bank_or_rtc_select = [rtc |-> "Ram", idx |-> byte]]
      [] byte = 8 -> [c EXCEPT !.ram_bank_or_rtc_select = [rtc |-> "Seconds", idx |-> 0]]
      [] byte = 9 -> [c EXCEPT !.ram_bank_or_rtc_select = [rtc |-> "Minutes", idx |-> 0]]
      [] byte = 10 -> [c EXCEPT !.ram_bank_or_rtc_select = [rtc |-> "Hours", idx |-> 0]]
      [] byte = 11 -> [c EXCEPT !.ram_bank_or_rtc_select = [rtc |-> "DayCounterLoBits", idx |-> 0]]
      [] byte = 12 -> [c EXCEPT !.ram_bank_or_rtc_select = [rtc |-> "DayCounterHiBits", idx |-> 0]]
      [] OTHER -> c

\* Mbc3Latch, had a 0x01 updated the clock registers whatever the latch state
Mbc3LatchAlways(c, byte, now) ==
    CASE byte = 0 -> [c EXCEPT !.latch_state = "Staged"]
      [] byte = 1 ->
            [c EXCEPT !.clock_registers = RtcUpdate(@, now), !.latch_state = "Latched"]
      [] OTHER -> c

\* Mbc3::write, arm 0x6000..=0x7FFF: the two-step latch of the clock registers
Mbc3Latch(c, byte, now) ==
    CASE byte = 0 -> [c EXCEPT !.latch_state = "Staged"]
      [] byte = 1 /\ c.latch_state = "Staged" ->
            [c EXCEPT !.clock_registers = RtcUpdate(@, now), !.latch_state = "Latched"]
      [] OTHER -> c

\* Mbc3::write, arm 0xA000..=0xBFFF
Mbc3WriteRam(c, addr, byte) ==
    IF c.enable_ram_and_rtc
    THEN CASE c.ram_bank_or_rtc_select.rtc = "Ram" ->
                IF c.ram_bank_or_rtc_select.idx \in DOMAIN c.ram_banks
                THEN [c EXCEPT !.ram_banks[c.ram_bank_or_rtc_select.idx][addr - 40960] = byte]
                ELSE CartPanic(c)
           [] c.ram_bank_or_rtc_select.rtc = "Seconds" ->
                [c EXCEPT !.clock_registers.seconds = byte % 60]
           [] c.ram_bank_or_rtc_select.rtc = "Minutes" ->
                [c EXCEPT !.clock_registers.minutes = byte % 60]
           [] c.ram_bank_or_rtc_select.rtc = "Hours" ->
                [c EXCEPT !.clock_registers.hours = byte % 24]
           [] c.ram_bank_or_rtc_select.rtc = "DayCounterLoBits" ->
                [c EXCEPT !.clock_registers.days_low = byte]
           [] c.ram_bank_or_rtc_select.rtc = "DayCounterHiBits" ->
                [c EXCEPT !.clock_registers.days_hi_bit = Bit(byte, 0),
                          !.clock_registers.day_counter_carry = Bit(byte, 7)]
    ELSE c

\* Mbc3::write
Mbc3Write(c, addr, byte, now) ==
    CASE addr \in 0 .. 8191 ->
            CASE byte % 16 = 10 -> [c EXCEPT !.enable_ram_and_rtc = TRUE]
              [] byte % 16 = 0 -> [c EXCEPT !.enable_ram_and_rtc = FALSE]
              [] OTHER -> c
      [] addr \in 8192 .. 16383 ->
            [c EXCEPT !.rom_bank_idx = IF byte % 128 = 0 THEN 1 ELSE byte % 128]
      [] addr \in 16384 .. 24575 -> Mbc3Select(c, byte)
      [] addr \in 24576 .. 32767 -> Mbc3Latch(c, byte, now)
      [] addr \in 40960 .. 49151 -> Mbc3WriteRam(c, addr, byte)
      [] OTHER -> CartPanic(c)

\* Cartridge::read of the cartridge variant at hand
CartRead(c, addr) ==
    CASE c.kind = "NoMbc" -> NoMbcRead(c, addr)
      [] c.kind = "Mbc1" -> Mbc1Read(c, addr)
      [] c.kind = "Mbc3" -> Mbc3Read(c, addr)

\* Cartridge::write of the cartridge variant at hand
CartWrite(c, addr, byte, now) ==
    CASE c.kind = "NoMbc" -> NoMbcWrite(c, addr, byte)
      [] c.kind = "Mbc1" -> Mbc1Write(c, addr, byte)
      [] c.kind = "Mbc3" -> Mbc3Write(c, addr, byte, now)

(***************************************************************************)
(* Cpu                                                                     *)
(***************************************************************************)
\* Cpu::new with Registers::create
CpuNew ==
    [ regs |-> [a |-> 0, f |-> 0, sp |-> 65534, pc |-> 0],
      ime |-> "Disabled",
      is_halted |-> FALSE ]

\* the order in which Cpu::step looks at the interrupt sources
InterruptOrder == <<"Vblank", "LcdStat", "Serial", "Timer", "Joypad">>

\* the handler address Cpu::step jumps to for each source
InterruptVector(k) ==
    CASE k = "Joypad" -> 96
      [] k = "Serial" -> 88
      [] k = "Timer" -> 80
      [] k = "LcdStat" -> 72
      [] k = "Vblank" -> 64

\* Cpu::push_u16, had it pushed the low byte first
push_u16_low_first(m, word) ==
    LET lo == to_le_bytes(word)[1]
        hi == to_le_bytes(word)[2]
        sp1 == (m.cpu.regs.sp + 65535) % 65536
        m1 == MmuWriteByte([m EXCEPT !.cpu.regs.sp = sp1], sp1, lo)
        sp2 == (sp1 + 65535) % 65536
    IN  MmuWriteByte([m1 EXCEPT !.cpu.regs.sp = sp2], sp2, hi)

\* Cpu::push_u16
push_u16(m, word) ==
    LET lo == to_le_bytes(word)[1]
        hi == to_le_bytes(word)[2]
        sp1 == (m.cpu.regs.sp + 65535) % 65536
        m1 == MmuWriteByte([m EXCEPT !.cpu.regs.sp = sp1], sp1, hi)
        sp2 == (sp1 + 65535) % 65536
    IN  MmuWriteByte([m1 EXCEPT !.cpu.regs.sp = sp2], sp2, lo)

\* the body of the loop over the interrupt sources in Cpu::step, taken for
\* the source that is both requested and enabled
ServiceInterrupt(m, k) ==
    LET m1 == [m EXCEPT !.cpu.ime = "Disabled",
                        !.cpu.is_halted = FALSE,
                        !.mmu.interrupts_requested = @ \ {k}]
        m2 == push_u16(m1, m1.cpu.regs.pc)
        m3 == [m2 EXCEPT !.cpu.regs.pc = InterruptVector(k)]
    IN  [MmuStep(m3, InterruptDispatchCycles) EXCEPT !.serviced = @ \cup {k}]

\* the loop over the interrupt sources in Cpu::step, from the i-th source
\* on: it ends (break) with the first source serviced
RECURSIVE ServiceLoop(_, _)
ServiceLoop(m, i) ==
    IF i > Len(InterruptOrder)
    THEN m
    ELSE IF /\ InterruptOrder[i] \in m.mmu.interrupts_requested
            /\ InterruptOrder[i] \in m.mmu.interrupts_enabled
         THEN ServiceInterrupt(m, InterruptOrder[i])
         ELSE ServiceLoop(m, i + 1)

\* HandleInterrupts, had it woken a halted CPU only through the interrupt service
HandleInterruptsNoWake(m) ==
    IF m.cpu.ime = "Enabled" THEN ServiceLoop(m, 1) ELSE m

\* HandleInterrupts, had it serviced interrupts whenever IME is not Disabled
HandleInterruptsPendingToo(m) ==
    IF m.cpu.ime # "Disabled"
    THEN ServiceLoop(m, 1)
    ELSE IF /\ (m.mmu.interrupts_requested \cap m.mmu.interrupts_enabled) # {}
            /\ m.cpu.is_halted
         THEN [m EXCEPT !.cpu.is_halted = FALSE]
         ELSE m

\* Cpu::step up to "update ime state": the interrupt service, or the wake-up
\* of a halted CPU that has IME off
HandleInterrupts(m) ==
    IF m.cpu.ime = "Enabled"
    THEN ServiceLoop(m, 1)
    ELSE IF /\ (m.mmu.interrupts_requested \cap m.mmu.interrupts_enabled) # {}
            /\ m.cpu.is_halted
         THEN [m EXCEPT !.cpu.is_halted = FALSE]
         ELSE m

\* Cpu::step, "update ime state"
UpdateIme(m) ==
    IF m.cpu.ime = "PendingEnable" THEN [m EXCEPT !.cpu.ime = "Enabled"] ELSE m


\* the function Cpu::execute calls for each opcode ("panic": an illegal opcode)
ExecuteFn ==
    << "nop", "ld_r16_n16", "ld_ref_r16_a", "inc_r16",
       "inc_r8", "dec_r8", "ld_r8_n8", "rlca",
       "ld_n16_sp", "add_hl_r16", "ld_a_ref_r16", "dec_r16",
       "inc_r8", "dec_r8", "ld_r8_n8", "rrca",
       "stop", "ld_r16_n16", "ld_ref_r16_a", "inc_r16",
       "inc_r8", "dec_r8", "ld_r8_n8", "rla",
       "jr_e8", "add_hl_r16", "ld_a_ref_r16", "dec_r16",
       "inc_r8", "dec_r8", "ld_r8_n8", "rra",
       "jr_cc_e8", "ld_r16_n16", "ld_ref_hli_a", "inc_r16",
       "inc_r8", "dec_r8", "ld_r8_n8", "daa",
       "jr_cc_e8", "add_hl_r16", "ld_a_ref_hli", "dec_r16",
       "inc_r8", "dec_r8", "ld_r8_n8", "cpl",
       "jr_cc_e8", "ld_r16_n16", "ld_ref_hld_a", "inc_r16",
       "inc_ref_hl", "dec_ref_hl", "ld_ref_hl_n8", "scf",
       "jr_cc_e8", "add_hl_r16", "ld_a_ref_hld", "dec_r16",
       "inc_r8", "dec_r8", "ld_r8_n8", "ccf",
       "ld_r8_r8", "ld_r8_r8", "ld_r8_r8", "ld_r8_r8",
       "ld_r8_r8", "ld_r8_r8", "ld_r8_ref_hl", "ld_r8_r8",
       "ld_r8_r8", "ld_r8_r8", "ld_r8_r8", "ld_r8_r8",
       "ld_r8_r8", "ld_r8_r8", "ld_r8_ref_hl", "ld_r8_r8",
       "ld_r8_r8", "ld_r8_r8", "ld_r8_r8", "ld_r8_r8",
       "ld_r8_r8", "ld_r8_r8", "ld_r8_ref_hl", "ld_r8_r8",
       "ld_r8_r8", "ld_r8_r8", "ld_r8_r8", "ld_r8_r8",
       "ld_r8_r8", "ld_r8_r8", "ld_r8_ref_hl", "ld_r8_r8",
       "ld_r8_r8", "ld_r8_r8", "ld_r8_r8", "ld_r8_r8",
       "ld_r8_r8", "ld_r8_r8", "ld_r8_ref_hl", "ld_r8_r8",
       "ld_r8_r8", "ld_r8_r8", "ld_r8_r8", "ld_r8_r8",
       "ld_r8_r8", "ld_r8_r8", "ld_r8_ref_hl", "ld_r8_r8",
       "ld_ref_hl_r8", "ld_ref_hl_r8", "ld_ref_hl_r8", "ld_ref_hl_r8",
       "ld_ref_hl_r8", "ld_ref_hl_r8", "halt", "ld_ref_hl_r8",
       "ld_r8_r8", "ld_r8_r8", "ld_r8_r8", "ld_r8_r8",
       "ld_r8_r8", "ld_r8_r8", "ld_r8_ref_hl", "ld_r8_r8",
       "add_a_r8", "add_a_r8", "add_a_r8", "add_a_r8",
       "add_a_r8", "add_a_r8", "add_a_ref_hl", "add_a_r8",
       "adc_a_r8", "adc_a_r8", "adc_a_r8", "adc_a_r8",
       "adc_a_r8", "adc_a_r8", "adc_a_ref_hl", "adc_a_r8",
       "sub_a_r8", "sub_a_r8", "sub_a_r8", "sub_a_r8",
       "sub_a_r8", "sub_a_r8", "sub_a_ref_hl", "sub_a_r8",
       "sbc_a_r8", "sbc_a_r8", "sbc_a_r8", "sbc_a_r8",
       "sbc_a_r8", "sbc_a_r8", "sbc_a_ref_hl", "sbc_a_r8",
       "and_a_r8", "and_a_r8", "and_a_r8", "and_a_r8",
       "and_a_r8", "and_a_r8", "and_a_ref_hl", "and_a_r8",
       "xor_a_r8", "xor_a_r8", "xor_a_r8", "xor_a_r8",
       "xor_a_r8", "xor_a_r8", "xor_a_ref_hl", "xor_a_r8",
       "or_a_r8", "or_a_r8", "or_a_r8", "or_a_r8",
       "or_a_r8", "or_a_r8", "or_a_ref_hl", "or_a_r8",
       "cp_a_r8", "cp_a_r8", "cp_a_r8", "cp_a_r8",
       "cp_a_r8", "cp_a_r8", "cp_a_ref_hl", "cp_a_r8",
       "ret_cc", "pop_r16", "jp_cc_n16", "jp_n16",
       "call_cc_n16", "push_r16", "add_a_n8", "rst_vec",
       "ret_cc", "ret", "jp_cc_n16", "cb_prefix",
       "call_cc_n16", "call_n16", "adc_a_n8", "rst_vec",
       "ret_cc", "pop_r16", "jp_cc_n16", "panic",
       "call_cc_n16", "push_r16", "sub_a_n8", "rst_vec",
       "ret_cc", "reti", "jp_cc_n16", "panic",
       "call_cc_n16", "panic", "sbc_a_n8", "rst_vec",
       "ldh_ref_a8_a", "pop_r16", "ldh_ref_c_a", "panic",
       "panic", "push_r16", "and_a_n8", "rst_vec",
       "add_sp_e8", "jp_hl", "ld_ref_n16_a", "panic",
       "panic", "panic", "xor_a_n8", "rst_vec",
       "ldh_a_ref_a8", "pop_r16", "ldh_a_ref_c", "di",
       "panic", "push_r16", "or_a_n8", "rst_vec",
       "ld_hl_sp_e8", "ld_sp_hl", "ld_a_ref_n16", "ei",
       "panic", "panic", "cp_a_n8", "rst_vec" >>

ExecuteCbFn ==
    << "rlc_r8", "rlc_r8", "rlc_r8", "rlc_r8",
       "rlc_r8", "rlc_r8", "rlc_ref_hl", "rlc_r8",
       "rrc_r8", "rrc_r8", "rrc_r8", "rrc_r8",
       "rrc_r8", "rrc_r8", "rrc_ref_hl", "rrc_r8",
       "rl_r8", "rl_r8", "rl_r8", "rl_r8",
       "rl_r8", "rl_r8", "rl_ref_hl", "rl_r8",
       "rr_r8", "rr_r8", "rr_r8", "rr_r8",
       "rr_r8", "rr_r8", "rr_ref_hl", "rr_r8",
       "sla_r8", "sla_r8", "sla_r8", "sla_r8",
       "sla_r8", "sla_r8", "sla_ref_hl", "sla_r8",
       "sra_r8", "sra_r8", "sra_r8", "sra_r8",
       "sra_r8", "sra_r8", "sra_ref_hl", "sra_r8",
       "swap_r8", "swap_r8", "swap_r8", "swap_r8",
       "swap_r8", "swap_r8", "swap_ref_hl", "swap_r8",
       "srl_r8", "srl_r8", "srl_r8", "srl_r8",
       "srl_r8", "srl_r8", "srl_ref_hl", "srl_r8",
       "bit_u3_r8", "bit_u3_r8", "bit_u3_r8", "bit_u3_r8",
       "bit_u3_r8", "bit_u3_r8", "bit_u3_ref_hl", "bit_u3_r8",
       "bit_u3_r8", "bit_u3_r8", "bit_u3_r8", "bit_u3_r8",
       "bit_u3_r8", "bit_u3_r8", "bit_u3_ref_hl", "bit_u3_r8",
       "bit_u3_r8", "bit_u3_r8", "bit_u3_r8", "bit_u3_r8",
       "bit_u3_r8", "bit_u3_r8", "bit_u3_ref_hl", "bit_u3_r8",
       "bit_u3_r8", "bit_u3_r8", "bit_u3_r8", "bit_u3_r8",
       "bit_u3_r8", "bit_u3_r8", "bit_u3_ref_hl", "bit_u3_r8",
       "bit_u3_r8", "bit_u3_r8", "bit_u3_r8", "bit_u3_r8",
       "bit_u3_r8", "bit_u3_r8", "bit_u3_ref_hl", "bit_u3_r8",
       "bit_u3_r8", "bit_u3_r8", "bit_u3_r8", "bit_u3_r8",
       "bit_u3_r8", "bit_u3_r8", "bit_u3_ref_hl", "bit_u3_r8",
       "bit_u3_r8", "bit_u3_r8", "bit_u3_r8", "bit_u3_r8",
       "bit_u3_r8", "bit_u3_r8", "bit_u3_ref_hl", "bit_u3_r8",
       "bit_u3_r8", "bit_u3_r8", "bit_u3_r8", "bit_u3_r8",
       "bit_u3_r8", "bit_u3_r8", "bit_u3_ref_hl", "bit_u3_r8",
       "res_u3_r8", "res_u3_r8", "res_u3_r8", "res_u3_r8",
       "res_u3_r8", "res_u3_r8", "res_u3_ref_hl", "res_u3_r8",
       "res_u3_r8", "res_u3_r8", "res_u3_r8", "res_u3_r8",
       "res_u3_r8", "res_u3_r8", "res_u3_ref_hl", "res_u3_r8",
       "res_u3_r8", "res_u3_r8", "res_u3_r8", "res_u3_r8",
       "res_u3_r8", "res_u3_r8", "res_u3_ref_hl", "res_u3_r8",
       "res_u3_r8", "res_u3_r8", "res_u3_r8", "res_u3_r8",
       "res_u3_r8", "res_u3_r8", "res_u3_ref_hl", "res_u3_r8",
       "res_u3_r8", "res_u3_r8", "res_u3_r8", "res_u3_r8",
       "res_u3_r8", "res_u3_r8", "res_u3_ref_hl", "res_u3_r8",
       "res_u3_r8", "res_u3_r8", "res_u3_r8", "res_u3_r8",
       "res_u3_r8", "res_u3_r8", "res_u3_ref_hl", "res_u3_r8",
       "res_u3_r8", "res_u3_r8", "res_u3_r8", "res_u3_r8",
       "res_u3_r8", "res_u3_r8", "res_u3_ref_hl", "res_u3_r8",
       "res_u3_r8", "res_u3_r8", "res_u3_r8", "res_u3_r8",
       "res_u3_r8", "res_u3_r8", "res_u3_ref_hl", "res_u3_r8",
       "set_u3_r8", "set_u3_r8", "set_u3_r8", "set_u3_r8",
       "set_u3_r8", "set_u3_r8", "set_u3_ref_hl", "set_u3_r8",
       "set_u3_r8", "set_u3_r8", "set_u3_r8", "set_u3_r8",
       "set_u3_r8", "set_u3_r8", "set_u3_ref_hl", "set_u3_r8",
       "set_u3_r8", "set_u3_r8", "set_u3_r8", "set_u3_r8",
       "set_u3_r8", "set_u3_r8", "set_u3_ref_hl", "set_u3_r8",
       "set_u3_r8", "set_u3_r8", "set_u3_r8", "set_u3_r8",
       "set_u3_r8", "set_u3_r8", "set_u3_ref_hl", "set_u3_r8",
       "set_u3_r8", "set_u3_r8", "set_u3_r8", "set_u3_r8",
       "set_u3_r8", "set_u3_r8", "set_u3_ref_hl", "set_u3_r8",
       "set_u3_r8", "set_u3_r8", "set_u3_r8", "set_u3_r8",
       "set_u3_r8", "set_u3_r8", "set_u3_ref_hl", "set_u3_r8",
       "set_u3_r8", "set_u3_r8", "set_u3_r8", "set_u3_r8",
       "set_u3_r8", "set_u3_r8", "set_u3_ref_hl", "set_u3_r8",
       "set_u3_r8", "set_u3_r8", "set_u3_r8", "set_u3_r8",
       "set_u3_r8", "set_u3_r8", "set_u3_ref_hl", "set_u3_r8" >>

\* the condition code of the conditional jumps, calls and returns in Cpu::execute
ExecuteCC(opcode) ==
    CASE opcode \in {32, 192, 194, 196} -> "NZ"
      [] opcode \in {40, 200, 202, 204} -> "Z"
      [] opcode \in {48, 208, 210, 212} -> "NC"
      [] opcode \in {56, 216, 218, 220} -> "C"
      [] OTHER -> "none"

\* Registers::flag for Z (bit 7 of F) and C (bit 4 of F), and Cpu::check_cond
check_cond(f, cc) ==
    CASE cc = "Z" -> Bit(f, 7)
      [] cc = "NZ" -> ~Bit(f, 7)
      [] cc = "C" -> Bit(f, 4)
      [] cc = "NC" -> ~Bit(f, 4)
      [] cc = "none" -> FALSE

\* the T-cycle count each instruction function returns (taken: check_cond held)
FnTCycles(f, taken) ==
    CASE f \in { "adc_a_r8", "add_a_r8", "and_a_r8", "cp_a_r8", "daa", "dec_r8", "di", "ei",
                 "halt", "inc_r8", "jp_hl", "ld_r8_r8", "nop", "or_a_r8", "rla", "rlca", "rra",
                 "rrca", "sbc_a_r8", "scf", "sub_a_r8", "xor_a_r8" } -> 4
      [] f \in { "adc_a_n8", "adc_a_ref_hl", "add_a_n8", "add_a_ref_hl", "add_hl_r16",
                 "and_a_n8", "and_a_ref_hl", "bit_u3_r8", "ccf", "cp_a_n8", "cp_a_ref_hl",
                 "cpl", "dec_r16", "inc_r16", "ld_a_ref_hld", "ld_a_ref_hli", "ld_a_ref_r16",
                 "ld_r8_n8", "ld_r8_ref_hl", "ld_ref_hl_r8", "ld_ref_hld_a", "ld_ref_hli_a",
                 "ld_ref_r16_a", "ld_sp_hl", "ldh_a_ref_c", "ldh_ref_c_a", "or_a_n8",
                 "or_a_ref_hl", "res_u3_r8", "rl_r8", "rlc_r8", "rr_r8", "rrc_r8", "sbc_a_n8",
                 "sbc_a_ref_hl", "set_u3_r8", "sla_r8", "sra_r8", "srl_r8", "sub_a_n8",
                 "sub_a_ref_hl", "swap_r8", "xor_a_n8", "xor_a_ref_hl" } -> 8
      [] f \in { "bit_u3_ref_hl", "dec_ref_hl", "inc_ref_hl", "jr_e8", "ld_hl_sp_e8",
                 "ld_r16_n16", "ld_ref_hl_n8", "ldh_a_ref_a8", "ldh_ref_a8_a", "pop_r16" } -> 12
      [] f \in { "add_sp_e8", "jp_n16", "ld_a_ref_n16", "ld_ref_n16_a", "push_r16",
                 "res_u3_ref_hl", "ret", "reti", "rl_ref_hl", "rlc_ref_hl", "rr_ref_hl",
                 "rrc_ref_hl", "rst_vec", "set_u3_ref_hl", "sla_ref_hl", "sra_ref_hl",
                 "srl_ref_hl", "swap_ref_hl" } -> 16
      [] f \in { "ld_n16_sp" } -> 20
      [] f \in { "call_n16" } -> 24
      [] f = "call_cc_n16" -> IF taken THEN 24 ELSE 12
      [] f = "jp_cc_n16" -> IF taken THEN 16 ELSE 12
      [] f = "jr_cc_e8" -> IF taken THEN 12 ELSE 8
      [] f = "ret_cc" -> IF taken THEN 20 ELSE 8

\* the functions that never return: STOP and the illegal opcodes panic
Panics(f) == f \in {"stop", "panic"}

\* the instruction function Cpu::execute runs for opcode, cb being the byte after a 0xCB prefix
ExecuteFnOf(opcode, cb) ==
    IF ExecuteFn[opcode + 1] = "cb_prefix" THEN ExecuteCbFn[cb + 1] ELSE ExecuteFn[opcode + 1]

\* ExecuteTCycles, had it counted M-cycles
ExecuteMCycles(opcode, cb, f) ==
    FnTCycles(ExecuteFnOf(opcode, cb), check_cond(f, ExecuteCC(opcode))) \div 4

\* the T-cycle count Cpu::execute returns
ExecuteTCycles(opcode, cb, f) ==
    FnTCycles(ExecuteFnOf(opcode, cb), check_cond(f, ExecuteCC(opcode)))

\* the assertion of Cpu::step on the T-cycle count of the executed opcode
StepAssertion(t_cycles) == t_cycles % 4 = 0 /\ t_cycles <= MaxInstructionCycles

\* Cpu::fetch_imm8, had it used wrapping_add as the opcode fetch does
fetch_imm8_wrapping(m) == [m EXCEPT !.cpu.regs.pc = (@ + 1) % 65536]

\* Cpu::fetch_imm8: the immediate is an input of the model, PC moves past it
\* with `pc += 1`, which at 0xFFFF panics where overflow is checked and wraps
\* where it is not
fetch_imm8(m) ==
    IF m.cpu.regs.pc = 65535
    THEN IF m.overflow_checks
         THEN [m EXCEPT !.panicked = TRUE]
         ELSE [m EXCEPT !.cpu.regs.pc = 0]
    ELSE [m EXCEPT !.cpu.regs.pc = @ + 1]

\* u8 as i8
as_i8(byte) == IF byte >= 128 THEN byte - 256 ELSE byte

\* u16 as i16
as_i16(word) == IF word >= 32768 THEN word - 65536 ELSE word

\* the jump of Cpu::jr_e8: pc = (pc as i16 + offset as i16) as u16, an i16
\* addition that panics on overflow where overflow is checked and wraps elsewhere
jr_jump(m, offset) ==
    LET sum == as_i16(m.cpu.regs.pc) + offset
    IN  IF m.panicked
        THEN m
        ELSE IF (sum > 32767 \/ sum < -32768) /\ m.overflow_checks
             THEN [m EXCEPT !.panicked = TRUE]
             ELSE [m EXCEPT !.cpu.regs.pc = (sum + 65536) % 65536]

\* Cpu::jr_e8 (opcode 0x18)
jr_e8(m, imm) == jr_jump(fetch_imm8(m), as_i8(imm))

\* Cpu::jr_cc_e8 (opcodes 0x20, 0x28, 0x30, 0x38), given whether the condition holds
jr_cc_e8(m, imm, taken) == IF taken THEN jr_jump(fetch_imm8(m), as_i8(imm)) ELSE fetch_imm8(m)

\* the opcode fetch of Cpu::step: read at pc, pc = pc.wrapping_add(1)
fetch_opcode(m) == [m EXCEPT !.cpu.regs.pc = (@ + 1) % 65536]

\* Cpu::nop
nop(m) == m

\* Cpu::ei, had it enabled interrupts at once
ei_immediate(m) == [m EXCEPT !.cpu.ime = "Enabled"]

\* Cpu::ei
ei(m) == [m EXCEPT !.cpu.ime = "PendingEnable"]

\* Cpu::di, had it left IME alone
di_keeps_ime(m) == m

\* Cpu::di
di(m) == [m EXCEPT !.cpu.ime = "Disabled"]

\* Cpu::halt
halt(m) == [m EXCEPT !.cpu.is_halted = TRUE]

\* Cpu::ld_r8_n8 for R8::A (opcode 0x3E)
ld_a_n8(m, imm) == [fetch_imm8(m) EXCEPT !.cpu.regs.a = imm]

\* Cpu::ldh_ref_a8_a (opcode 0xE0)
ldh_ref_a8_a(m, imm) == MmuWriteByte(fetch_imm8(m), 65280 + imm, m.cpu.regs.a)

\* the bit of F that holds a Flag
FlagShift(flag) ==
    CASE flag = "Z" -> 7
      [] flag = "N" -> 6
      [] flag = "H" -> 5
      [] flag = "C" -> 4

\* Registers::flag
flag_of(m, flag) == Bit(m.cpu.regs.f, FlagShift(flag))

\* Registers::set_flag: f |= 1 << shift, or f &= !(1 << shift)
set_flag(m, flag, bit) ==
    LET mask == 2 ^ FlagShift(flag)
        f == m.cpu.regs.f
    IN  IF bit
        THEN [m EXCEPT !.cpu.regs.f = IF Bit(f, FlagShift(flag)) THEN f ELSE f + mask]
        ELSE [m EXCEPT !.cpu.regs.f = IF Bit(f, FlagShift(flag)) THEN f - mask ELSE f]

\* Cpu::pop_u16, had it read the high byte first
pop_u16_high_first(m) ==
    LET hi == MmuReadByte(m, m.cpu.regs.sp)
        sp1 == (m.cpu.regs.sp + 1) % 65536
        lo == MmuReadByte(m, sp1)
        sp2 == (sp1 + 1) % 65536
    IN  <<[m EXCEPT !.cpu.regs.sp = sp2], hi * 256 + lo>>

\* Cpu::pop_u16, as <<machine, word>>
pop_u16(m) ==
    LET lo == MmuReadByte(m, m.cpu.regs.sp)
        sp1 == (m.cpu.regs.sp + 1) % 65536
        hi == MmuReadByte(m, sp1)
        sp2 == (sp1 + 1) % 65536
    IN  <<[m EXCEPT !.cpu.regs.sp = sp2], hi * 256 + lo>>

\* Registers::set_r16 for R16::AF, had it cleared the low nibble of F
set_r16_af_masked(m, word) ==
    [m EXCEPT !.cpu.regs.a = word \div 256, !.cpu.regs.f = (word % 256) - (word % 16)]

\* Registers::set_r16 for R16::AF: A is the high byte, F the low byte
set_r16_af(m, word) ==
    [m EXCEPT !.cpu.regs.a = word \div 256, !.cpu.regs.f = word % 256]

\* Cpu::pop_r16 for R16::AF, had it stored the popped low byte as it is
pop_af_unmasked(m) ==
    LET popped == pop_u16(m)
    IN  [popped[1] EXCEPT !.cpu.regs.a = popped[2] \div 256,
                          !.cpu.regs.f = popped[2] % 256]

\* Cpu::pop_r16 for R16::AF (opcode 0xF1): set_r16, then f &= 0xF0
pop_af(m) ==
    LET popped == pop_u16(m)
        lo == popped[2] % 256
    IN  [popped[1] EXCEPT !.cpu.regs.a = popped[2] \div 256,
                          !.cpu.regs.f = lo - (lo % 16)]

\* Cpu::push_r16 for R16::AF (opcode 0xF5)
push_af(m) == push_u16(m, m.cpu.regs.a * 256 + m.cpu.regs.f)

\* Cpu::inc_r16 for R16::SP (opcode 0x33)
inc_sp(m) == [m EXCEPT !.cpu.regs.sp = (@ + 1) % 65536]

\* Cpu::dec_r16 for R16::SP (opcode 0x3B)
dec_sp(m) == [m EXCEPT !.cpu.regs.sp = (@ + 65535) % 65536]

\* Cpu::ccf (opcode 0x3F)
ccf(m) ==
    LET m1 == set_flag(m, "N", FALSE)
        m2 == set_flag(m1, "H", FALSE)
    IN  set_flag(m2, "C", ~flag_of(m2, "C"))

\* Cpu::scf (opcode 0x37)
scf(m) == set_flag(set_flag(set_flag(m, "N", FALSE), "H", FALSE), "C", TRUE)

\* Cpu::cpl (opcode 0x2F)
cpl(m) ==
    set_flag(set_flag([m EXCEPT !.cpu.regs.a = 255 - @], "N", TRUE), "H", TRUE)

\* Cpu::execute, for the opcodes of the modelled programs
Execute(m, opcode, imm) ==
    CASE opcode = 0 -> nop(m)
      [] opcode = 251 -> ei(m)
      [] opcode = 243 -> di(m)
      [] opcode = 118 -> halt(m)
      [] opcode = 62 -> ld_a_n8(m, imm)
      [] opcode = 224 -> ldh_ref_a8_a(m, imm)

\* what obs records of the machine right before the opcode fetch
AtFetch(m) ==
    [ ime |-> m.cpu.ime,
      is_halted |-> m.cpu.is_halted,
      interrupts_requested |-> m.mmu.interrupts_requested,
      pc |-> m.cpu.regs.pc,
      sp |-> m.cpu.regs.sp,
      stack_top |-> IF m.serviced # {}
                    THEN <<MmuReadByte(m, m.cpu.regs.sp), MmuReadByte(m, m.cpu.regs.sp + 1)>>
                    ELSE <<>>,
      raised |-> m.raised,
      divider_count |-> m.mmu.divider.t_cycles_count ]

\* StepHalted, had the halted branch returned 4 without the Mmu::step call
StepHaltedWithoutMmuStep(m) ==
    [m EXCEPT
        !.obs = [ fetched |-> <<>>, was_halted |-> m.was_halted,
                  serviced |-> m.serviced, at_fetch |-> AtFetch(m),
                  charged |-> (IF m.serviced # {} THEN <<InterruptDispatchCycles>> ELSE <<>>),
                  ret |-> HaltedStepCycles ]]

\* Cpu::step, the halted branch: charge 4 T-cycles and return 4
StepHalted(m) ==
    [MmuStep(m, HaltedStepCycles) EXCEPT
        !.obs = [ fetched |-> <<>>, was_halted |-> m.was_halted,
                  serviced |-> m.serviced, at_fetch |-> AtFetch(m),
                  charged |-> (IF m.serviced # {} THEN <<InterruptDispatchCycles>> ELSE <<>>)
                              \o <<HaltedStepCycles>>,
                  ret |-> HaltedStepCycles ]]

\* StepExecute, had it returned the instruction's T-cycles without the dispatch charge
StepExecuteReturnsInstructionOnly(m, opcode, imm) ==
    LET fetched == fetch_opcode(m)
        t_cycles == ExecuteTCycles(opcode, 0, fetched.cpu.regs.f)
        executed == Execute(fetched, opcode, imm)
    IN  [MmuStep(executed, t_cycles) EXCEPT
            !.obs = [ fetched |-> <<opcode>>, was_halted |-> m.was_halted,
                      serviced |-> m.serviced, at_fetch |-> AtFetch(m),
                      charged |-> (IF m.serviced # {} THEN <<InterruptDispatchCycles>> ELSE <<>>)
                                  \o <<t_cycles>>,
                      ret |-> t_cycles ]]

\* Cpu::step, the executing branch: fetch, execute, assert, charge, return
StepExecute(m, opcode, imm) ==
    LET fetched == fetch_opcode(m)
        t_cycles == ExecuteTCycles(opcode, 0, fetched.cpu.regs.f)
        executed == Execute(fetched, opcode, imm)
    IN  [MmuStep(executed, t_cycles) EXCEPT
            !.obs = [ fetched |-> <<opcode>>, was_halted |-> m.was_halted,
                      serviced |-> m.serviced, at_fetch |-> AtFetch(m),
                      charged |-> (IF m.serviced # {} THEN <<InterruptDispatchCycles>> ELSE <<>>)
                                  \o <<t_cycles>>,
                      ret |-> t_cycles + (IF m.serviced # {} THEN InterruptDispatchCycles ELSE 0) ]]

\* Cpu::step, had it looked at the interrupts only after a first Mmu::step
StepServicingLate(m, opcode, imm) ==
    LET handled == UpdateIme(HandleInterrupts(MmuStep(m, HaltedStepCycles)))
    IN  IF handled.cpu.is_halted
        THEN StepHalted(handled)
        ELSE StepExecute(handled, opcode, imm)

\* Cpu::step, from the machine at the start of the step and the bytes it fetches
Step(m, opcode, imm) ==
    LET handled == UpdateIme(HandleInterrupts(m))
    IN  IF handled.cpu.is_halted
        THEN StepHalted(handled)
        ELSE StepExecute(handled, opcode, imm)

(***************************************************************************)
(* The CPU stepping through arbitrary ROM content: each Cpu::step fetches  *)
(* any of the modelled opcodes and any of the modelled immediates.         *)
(***************************************************************************)
\* NOP, LD A,n8, HALT, LDH (a8),A, DI, EI
StepOpcodes == {0, 62, 118, 224, 243, 251}

\* immediates of LD A,n8: masks of interrupt sources
ABytes == {0, 12, 31}

\* immediates of LDH (a8),A: IF and IE
IoOffsets == {15, 255}

Immediates(opcode) ==
    CASE opcode = 62 -> ABytes
      [] opcode = 224 -> IoOffsets
      [] OTHER -> {0}

ObsNew ==
    [ fetched |-> <<>>, was_halted |-> FALSE, serviced |-> {}, at_fetch |-> <<>>,
      charged |-> <<>>, ret |-> 0 ]

ExecNew == [ state |-> "idle" ]

\* the machine at the start of a Cpu::step
Machine ==
    [ cpu |-> cpu, mmu |-> mmu, ppu |-> ppu, ppu_ret |-> ppu_ret, obs |-> obs,
      mem |-> mem, overflow_checks |-> build.overflow_checks, panicked |-> FALSE,
      raised |-> {}, serviced |-> {}, was_halted |-> cpu.is_halted,
      timer_ret |-> FALSE, divider_ret |-> FALSE ]

TimNew == [ ticks |-> 0, timer_ret |-> FALSE, divider_ret |-> FALSE, divider_overflowed |-> FALSE ]

\* the variables of the component specifications, at rest
InitAux ==
    /\ tim = TimNew
    /\ cart = NoMbcNew
    /\ wall = 0
    /\ joy = JoyNew
    /\ mem = MemNew
    /\ io = IoNew
    /\ build = BuildNew
    /\ scene = SceneNew

Init ==
    /\ cpu = CpuNew
    /\ mmu = MmuNew
    /\ ppu = PpuNew
    /\ ppu_ret = {}
    /\ obs = ObsNew
    /\ rom = <<>>
    /\ exec = ExecNew
    /\ lcdc_writes = 0
    /\ InitAux

\* one call of Cpu::step that fetches opcode (and imm, if the opcode has an immediate)
CpuStep(opcode, imm) ==
    LET m == Step(Machine, opcode, imm)
    IN  /\ cpu' = m.cpu
        /\ mmu' = m.mmu
        /\ ppu' = m.ppu
        /\ ppu_ret' = m.ppu_ret
        /\ obs' = m.obs
        /\ UNCHANGED <<rom, exec, lcdc_writes, aux>>

DoStep ==
    /\ mmu.divider.t_cycles_count < MaxTCycles
    /\ \E opcode \in StepOpcodes : \E imm \in Immediates(opcode) : CpuStep(opcode, imm)

Next == DoStep

Spec == Init /\ [][Next]_vars

(***************************************************************************)
(* The CPU running a three-byte program placed at address 0, as the unit   *)
(* tests test_ime_update and ei_di_unset_ime do.                           *)
(***************************************************************************)
ProgramLen == 3

ProgramOpcodes == {0, 118, 243, 251}

Programs == [1 .. ProgramLen -> ProgramOpcodes]

InitProg ==
    /\ cpu = CpuNew
    /\ mmu = MmuNew
    /\ ppu = PpuNew
    /\ ppu_ret = {}
    /\ obs = ObsNew
    /\ rom \in Programs
    /\ exec = ExecNew
    /\ lcdc_writes = 0
    /\ InitAux

DoProgStep ==
    /\ mmu.divider.t_cycles_count < MaxTCycles
    /\ cpu.regs.pc < Len(rom)
    /\ CpuStep(rom[cpu.regs.pc + 1], 0)

NextProg == DoProgStep

SpecProg == InitProg /\ [][NextProg]_vars

(***************************************************************************)
(* Cpu::execute on its own: one call for every opcode byte, every byte     *)
(* after a 0xCB prefix and every value of the Z and C flags.               *)
(***************************************************************************)
Bytes == 0 .. 255

\* F with Z (bit 7) and C (bit 4) clear or set
FlagBytes == {0, 16, 128, 144}

InitExec ==
    /\ cpu = CpuNew
    /\ mmu = MmuNew
    /\ ppu = PpuNew
    /\ ppu_ret = {}
    /\ obs = ObsNew
    /\ rom = <<>>
    /\ \E opcode \in Bytes : \E cb \in (IF opcode = 203 THEN Bytes ELSE {0}) :
         \E f \in FlagBytes :
            exec = [ state |-> "fetched", opcode |-> opcode, cb |-> cb, f |-> f ]
    /\ lcdc_writes = 0
    /\ InitAux

\* Cpu::execute returns, and Cpu::step evaluates its assertion on the result
DoExecute ==
    /\ exec.state = "fetched"
    /\ ~Panics(ExecuteFnOf(exec.opcode, exec.cb))
    /\ exec' = [ state |-> "returned", opcode |-> exec.opcode, cb |-> exec.cb, f |-> exec.f,
                 t_cycles |-> ExecuteTCycles(exec.opcode, exec.cb, exec.f),
                 assertion |-> StepAssertion(ExecuteTCycles(exec.opcode, exec.cb, exec.f)) ]
    /\ UNCHANGED <<cpu, mmu, ppu, ppu_ret, obs, rom, lcdc_writes, aux>>

\* Cpu::execute panics: STOP and the illegal opcodes
DoExecutePanic ==
    /\ exec.state = "fetched"
    /\ Panics(ExecuteFnOf(exec.opcode, exec.cb))
    /\ exec' = [ state |-> "panicked", opcode |-> exec.opcode, cb |-> exec.cb, f |-> exec.f ]
    /\ UNCHANGED <<cpu, mmu, ppu, ppu_ret, obs, rom, lcdc_writes, aux>>

NextExec == DoExecute \/ DoExecutePanic

SpecExec == InitExec /\ [][NextExec]_vars

(***************************************************************************)
(* The PPU on its own: Ppu::step driven with a T-cycle count Mmu::step     *)
(* passes to it, and the MMU writes that land in PPU registers.            *)
(***************************************************************************)
\* T-cycle count of one Mmu::step call: the longest instruction's
PpuTCycles == {MaxInstructionCycles}

\* LCDC bytes: LCD off, LCD on
LcdcBytes == {0, 128}

\* STAT bytes: no interrupt select, all four
StatBytes == {0, 120}

\* LYC bytes: the line of the wrap, the first and the last line of the vertical blank
LycBytes == {0, 144, 153}

InitPpu ==
    /\ cpu = CpuNew
    /\ mmu = MmuNew
    /\ ppu = PpuNew
    /\ ppu_ret = {}
    /\ obs = ObsNew
    /\ rom = <<>>
    /\ exec = ExecNew
    /\ lcdc_writes = 0
    /\ InitAux

DoPpuStep ==
    /\ \E t \in PpuTCycles :
        /\ ppu' = PpuStep(ppu, t)[1]
        /\ ppu_ret' = PpuStep(ppu, t)[2]
    /\ UNCHANGED <<cpu, mmu, obs, rom, exec, lcdc_writes, aux>>

DoWriteLcdc ==
    /\ lcdc_writes < MaxLcdcWrites
    /\ \E byte \in LcdcBytes : ppu' = WriteLcdc(ppu, byte)
    /\ lcdc_writes' = lcdc_writes + 1
    /\ UNCHANGED <<cpu, mmu, ppu_ret, obs, rom, exec, aux>>

DoWriteStat ==
    /\ \E byte \in StatBytes : ppu' = WriteStat(ppu, byte)
    /\ UNCHANGED <<cpu, mmu, ppu_ret, obs, rom, exec, lcdc_writes, aux>>

DoWriteLyc ==
    /\ \E byte \in LycBytes : ppu' = WriteLyc(ppu, byte)
    /\ UNCHANGED <<cpu, mmu, ppu_ret, obs, rom, exec, lcdc_writes, aux>>

NextPpu == DoPpuStep \/ DoWriteLcdc \/ DoWriteStat \/ DoWriteLyc

SpecPpu == InitPpu /\ [][NextPpu]_vars

(***************************************************************************)
(* The timer and the divider on their own: the program sets the timer up   *)
(* through TAC, TIMA and TMA, and Mmu::step advances both counters.        *)
(***************************************************************************)
\* T-cycle count of one Mmu::step call: the shortest instruction's, which
\* lands the accumulators on every tick period exactly
TimerTCycles == {HaltedStepCycles}

\* TAC bytes: timer off, and timer on at each of the four frequencies
TacBytes == {0, 4, 5, 6, 7}

TimaBytes == {255}

TmaBytes == {254}

InitTimer ==
    /\ cpu = CpuNew
    /\ mmu = MmuNew
    /\ ppu = PpuNew
    /\ ppu_ret = {}
    /\ obs = ObsNew
    /\ rom = <<>>
    /\ exec = ExecNew
    /\ lcdc_writes = 0
    /\ InitAux

\* a write of one of the timer registers during the set-up
TimerWrite(addr, byte) ==
    /\ mmu.divider.t_cycles_count <= MaxTimerSetupCycles
    /\ mmu' = MmuWriteByte(Machine, addr, byte).mmu
    /\ UNCHANGED <<cpu, ppu, ppu_ret, obs, rom, exec, lcdc_writes, tim, cart_aux, io_aux>>

DoWriteTac == ~mmu.timer.enabled /\ \E byte \in TacBytes : TimerWrite(65287, byte)

DoWriteTima == \E byte \in TimaBytes : TimerWrite(65285, byte)

DoWriteTma == \E byte \in TmaBytes : TimerWrite(65286, byte)

\* one call of Mmu::step; tim counts the increments of the timer's value
\* (a wrap that reloads the value it had still is one)
DoTimerStep ==
    /\ mmu.divider.t_cycles_count < MaxTimerCycles
    /\ \E t \in TimerTCycles :
         LET m == MmuStep(Machine, t)
             ticked == m.mmu.timer.value # mmu.timer.value \/ m.timer_ret
         IN  /\ mmu' = m.mmu
             /\ ppu' = m.ppu
             /\ ppu_ret' = m.ppu_ret
             /\ tim' = [ ticks |-> tim.ticks + (IF ticked THEN 1 ELSE 0),
                         timer_ret |-> m.timer_ret,
                         divider_ret |-> m.divider_ret,
                         divider_overflowed |-> tim.divider_overflowed \/ m.divider_ret ]
    /\ UNCHANGED <<cpu, obs, rom, exec, lcdc_writes, cart_aux, io_aux>>

NextTimer == DoWriteTac \/ DoWriteTima \/ DoWriteTma \/ DoTimerStep

SpecTimer == InitTimer /\ [][NextTimer]_vars

(***************************************************************************)
(* A cartridge on its own: the program writes to the cartridge's address   *)
(* ranges while the wall clock runs.                                       *)
(***************************************************************************)
\* the first and the last address of each control range Cartridge::write
\* tells apart, and the first address of the RAM range
CartAddrs == {0, 8191, 8192, 16383, 16384, 24575, 24576, 32767, 40960}

\* bytes written to the control ranges: 0x00, 0x01, 0x02, 0x0A, 0x1A
ControlBytes == {0, 1, 2, 10, 26}

\* bytes written to the RAM range
RamBytes == {85}

CartBytes(addr) == IF addr >= 40960 THEN RamBytes ELSE ControlBytes

\* Mmu::new picks the cartridge variant from the ROM header
InitCart ==
    /\ cpu = CpuNew
    /\ mmu = MmuNew
    /\ ppu = PpuNew
    /\ ppu_ret = {}
    /\ obs = ObsNew
    /\ rom = <<>>
    /\ exec = ExecNew
    /\ lcdc_writes = 0
    /\ tim = TimNew
    /\ wall = 0
    /\ joy = JoyNew
    /\ mem = MemNew
    /\ io = IoNew
    /\ build = BuildNew
    /\ scene = SceneNew
    /\ cart \in {NoMbcNew, Mbc1New, Mbc3New(0)}

\* one call of Cartridge::write
CartWriteAt(addr, byte) ==
    /\ ~cart.panicked
    /\ cart.kind = "Mbc3" => cart.clock_registers.update_calls < MaxRtcUpdates
    /\ cart' = CartWrite(cart, addr, byte, wall)
    /\ UNCHANGED <<cpu, mmu, ppu, ppu_ret, obs, rom, exec, lcdc_writes, timer_aux, io_aux, wall>>

DoCartWrite == \E addr \in CartAddrs : \E byte \in CartBytes(addr) : CartWriteAt(addr, byte)

\* a second passes
DoWallClockTick ==
    /\ wall < MaxWallClock
    /\ wall' = wall + 1
    /\ UNCHANGED <<cpu, mmu, ppu, ppu_ret, obs, rom, exec, lcdc_writes, timer_aux, io_aux, cart>>

NextCart == DoCartWrite \/ DoWallClockTick

SpecCart == InitCart /\ [][NextCart]_vars

(***************************************************************************)
(* The joypad register alone: writes of the select bits, changes of the    *)
(* pressed buttons, and reads of 0xFF00.                                    *)
(***************************************************************************)

\* bytes written to 0xFF00: every value of bits 5 and 4, with the other bits clear or set
JoypadBytes == {0, 16, 32, 48, 207, 223, 239, 255}

InitJoypad ==
    /\ cpu = CpuNew
    /\ mmu = MmuNew
    /\ ppu = PpuNew
    /\ ppu_ret = {}
    /\ obs = ObsNew
    /\ rom = <<>>
    /\ exec = ExecNew
    /\ lcdc_writes = 0
    /\ InitAux

\* a program writes byte to 0xFF00
DoWriteJoypad ==
    \E byte \in JoypadBytes :
        /\ mmu' = MmuWriteByte(Machine, 65280, byte).mmu
        /\ joy' = [written |-> <<byte>>, read |-> <<>>]
        /\ UNCHANGED <<cpu, ppu, ppu_ret, obs, rom, exec, lcdc_writes, timer_aux, cart_aux, mem, late_aux>>

\* the sets of buttons the front end can report next: one key went down or up
ButtonSets ==
    { mmu.pressed_buttons \cup {button} : button \in Button }
        \cup { mmu.pressed_buttons \ {button} : button \in Button }

\* the front end reports the buttons held down
DoSetPressedButtons ==
    \E buttons \in ButtonSets \ {mmu.pressed_buttons} :
        /\ mmu' = set_pressed_buttons(Machine, buttons).mmu
        /\ joy' = [joy EXCEPT !.read = <<>>]
        /\ UNCHANGED <<cpu, ppu, ppu_ret, obs, rom, exec, lcdc_writes, timer_aux, cart_aux, mem, late_aux>>

\* a program reads 0xFF00
DoReadJoypad ==
    /\ joy' = [joy EXCEPT !.read = <<MmuReadByte(Machine, 65280)>>]
    /\ UNCHANGED <<cpu, mmu, ppu, ppu_ret, obs, rom, exec, lcdc_writes, timer_aux, cart_aux, mem, late_aux>>

NextJoypad == DoWriteJoypad \/ DoSetPressedButtons \/ DoReadJoypad

SpecJoypad == InitJoypad /\ [][NextJoypad]_vars

(***************************************************************************)
(* Work RAM, object attribute memory and the OAM DMA transfer.             *)
(***************************************************************************)

\* addresses a program writes: work RAM (the first byte and the attribute
\* bytes of the first object of a page), its echo, and an attribute byte of OAM
MemAddrs == {49152, 49155, 56579, 57347, 65027}

\* bytes written to memory
MemBytes == {90, 255}

\* bytes written to 0xFF46: pages of work RAM, of echo RAM, and of OAM itself
DmaPages == {192, 221, 224, 253, 254}

InitDma ==
    /\ cpu = CpuNew
    /\ mmu = MmuNew
    /\ ppu = PpuNew
    /\ ppu_ret = {}
    /\ obs = ObsNew
    /\ rom = <<>>
    /\ exec = ExecNew
    /\ lcdc_writes = 0
    /\ InitAux

\* a program writes a byte of work RAM or of OAM
DoWriteMem ==
    \E addr \in MemAddrs, byte \in MemBytes :
        /\ mem.writes < MaxMemWrites
        /\ LET m == MmuWriteByte(Machine, addr, byte)
           IN  /\ mem' = [m.mem EXCEPT !.writes = @ + 1, !.dma = <<>>]
               /\ mmu' = m.mmu
               /\ ppu' = m.ppu
        /\ UNCHANGED <<cpu, ppu_ret, obs, rom, exec, lcdc_writes, timer_aux, cart_aux, joy, late_aux>>

\* a program writes a page number to 0xFF46; dma records the page
DoDma ==
    \E byte \in DmaPages :
        LET m == MmuWriteByte(Machine, 65350, byte)
        IN  /\ mem' = [m.mem EXCEPT !.dma = <<byte>>]
            /\ mmu' = m.mmu
            /\ ppu' = m.ppu
            /\ cpu' = m.cpu
            /\ UNCHANGED <<ppu_ret, obs, rom, exec, lcdc_writes, timer_aux, cart_aux, joy, late_aux>>

NextDma == DoWriteMem \/ DoDma

SpecDma == InitDma /\ [][NextDma]_vars

(***************************************************************************)
(* Accesses of the I/O addresses that have no register.                    *)
(***************************************************************************)

IoBytes == {0, 255}

\* a program reads an I/O address without a register
DoReadIo ==
    \E addr \in IoUnlisted :
        /\ io' = [addr |-> <<addr>>, read |-> ReadIoUnlisted(Machine, addr), written |-> <<>>]
        /\ UNCHANGED <<cpu, mmu, ppu, ppu_ret, obs, rom, exec, lcdc_writes, timer_aux, cart_aux, joy, mem, build, scene>>

\* a program writes an I/O address without a register
DoWriteIo ==
    \E addr \in IoUnlisted, byte \in IoBytes :
        LET m == WriteIoUnlisted(Machine, addr, byte)
        IN  /\ io' = [addr |-> <<addr>>, read |-> <<>>, written |-> <<byte>>]
            /\ cpu' = m.cpu
            /\ mmu' = m.mmu
            /\ ppu' = m.ppu
            /\ mem' = m.mem
            /\ UNCHANGED <<ppu_ret, obs, rom, exec, lcdc_writes, timer_aux, cart_aux, joy, build, scene>>

NextIo == DoReadIo \/ DoWriteIo

SpecIo == InitJoypad /\ [][NextIo]_vars

(***************************************************************************)
(* The flag register: the instructions that write F without an operand     *)
(* and the stack instructions that move AF, applied in any order.          *)
(***************************************************************************)

\* the instruction methods applied
FlagOps == {"ccf", "scf", "cpl", "push_af", "pop_af", "inc_sp", "dec_sp"}

\* the machine after the method op
FlagOp(m, op) ==
    CASE op = "ccf" -> ccf(m)
      [] op = "scf" -> scf(m)
      [] op = "cpl" -> cpl(m)
      [] op = "push_af" -> push_af(m)
      [] op = "pop_af" -> pop_af(m)
      [] op = "inc_sp" -> inc_sp(m)
      [] op = "dec_sp" -> dec_sp(m)

\* the stack stays inside the top StackDepth bytes of high RAM
FlagOpEnabled(op) ==
    CASE op = "push_af" -> cpu.regs.sp >= 65534 - StackDepth + 2
      [] op = "pop_af" -> cpu.regs.sp <= 65532
      [] op = "inc_sp" -> cpu.regs.sp < 65534
      [] op = "dec_sp" -> cpu.regs.sp > 65534 - StackDepth
      [] OTHER -> TRUE

InitFlags ==
    /\ cpu = CpuNew
    /\ mmu = MmuNew
    /\ ppu = PpuNew
    /\ ppu_ret = {}
    /\ obs = ObsNew
    /\ rom = <<>>
    /\ exec = [state |-> "idle", calls |-> 0]
    /\ lcdc_writes = 0
    /\ InitAux

\* Cpu::execute runs one of the methods; exec names it and counts the calls
DoFlagOp ==
    \E op \in FlagOps :
        /\ exec.calls < MaxFlagOps
        /\ FlagOpEnabled(op)
        /\ LET m == FlagOp(Machine, op)
           IN  /\ cpu' = m.cpu
               /\ mmu' = m.mmu
        /\ exec' = [state |-> op, calls |-> exec.calls + 1]
        /\ UNCHANGED <<ppu, ppu_ret, obs, rom, lcdc_writes, aux>>

NextFlags == DoFlagOp

SpecFlags == InitFlags /\ [][NextFlags]_vars

(***************************************************************************)
(* The palette registers BGP, OBP0 and OBP1: writes and reads.             *)
(***************************************************************************)

\* bytes written to a palette register
PaletteBytes(addr) == IF addr = 65351 THEN 0 .. 255 ELSE {228}

\* a program writes a palette register
DoWritePalette ==
    \E addr \in 65351 .. 65353 :
        \E byte \in PaletteBytes(addr) :
            /\ ppu' = MmuWriteByte(Machine, addr, byte).ppu
            /\ io' = [addr |-> <<addr>>, read |-> <<>>, written |-> <<byte>>]
            /\ UNCHANGED <<cpu, mmu, ppu_ret, obs, rom, exec, lcdc_writes, timer_aux, cart_aux, joy, mem, build, scene>>

\* a program reads the palette register it wrote last
DoReadPalette ==
    /\ io.addr # <<>>
    /\ io' = [io EXCEPT !.read = <<MmuReadByte(Machine, io.addr[1])>>]
    /\ UNCHANGED <<cpu, mmu, ppu, ppu_ret, obs, rom, exec, lcdc_writes, timer_aux, cart_aux, joy, mem, build, scene>>

NextPalette == DoWritePalette \/ DoReadPalette

SpecPalette == InitJoypad /\ [][NextPalette]_vars

(***************************************************************************)
(* The program counter: the opcode fetch, the immediate fetch and the      *)
(* relative jumps, from any of a set of PC values, in either build.        *)
(***************************************************************************)

\* PC values at the start: around 0, around the i16 sign change, and at the top
PcValues == {0, 1, 127, 128, 32766, 32767, 32768, 32769, 65407, 65408, 65534, 65535}

\* the byte after a JR opcode: every offset -128 .. 127
OffsetBytes == 0 .. 255

InitPc ==
    /\ cpu \in { [CpuNew EXCEPT !.regs.pc = pc] : pc \in PcValues }
    /\ mmu = MmuNew
    /\ ppu = PpuNew
    /\ ppu_ret = {}
    /\ obs = ObsNew
    /\ rom = <<>>
    /\ exec = [state |-> "idle", calls |-> 0, imm |-> 0, taken |-> TRUE]
    /\ lcdc_writes = 0
    /\ tim = TimNew
    /\ cart = NoMbcNew
    /\ wall = 0
    /\ joy = JoyNew
    /\ mem = MemNew
    /\ io = IoNew
    /\ build \in { [overflow_checks |-> checks] : checks \in BOOLEAN }
    /\ scene = SceneNew

\* the machine m after a call named state; a panic ends the run
PcCall(m, state, imm, taken) ==
    /\ exec.state # "panic"
    /\ exec.calls < MaxPcCalls
    /\ cpu' = m.cpu
    /\ exec' = [state |-> IF m.panicked THEN "panic" ELSE state,
                calls |-> exec.calls + 1, imm |-> imm, taken |-> taken]
    /\ UNCHANGED <<mmu, ppu, ppu_ret, obs, rom, lcdc_writes, aux>>

\* Cpu::step fetches the opcode byte
DoFetchOpcode == PcCall(fetch_opcode(Machine), "fetch_opcode", 0, TRUE)

\* an instruction fetches its 8-bit immediate
DoFetchImm8 == PcCall(fetch_imm8(Machine), "fetch_imm8", 0, TRUE)

\* JR e8, after its opcode was fetched
DoJr == \E imm \in OffsetBytes : PcCall(jr_e8(Machine, imm), "jr", imm, TRUE)

\* JR cc,e8, after its opcode was fetched
DoJrCc ==
    \E imm \in OffsetBytes, taken \in BOOLEAN :
        PcCall(jr_cc_e8(Machine, imm, taken), "jr_cc", imm, taken)

NextPc == DoFetchOpcode \/ DoFetchImm8 \/ DoJr \/ DoJrCc

SpecPc == InitPc /\ [][NextPc]_vars

(***************************************************************************)
(* Properties                                                              *)
(***************************************************************************)
\* C1: running the program [EI, NOP, NOP] from IME Disabled, IME is
\* PendingEnable after the first step and Enabled after the second and the
\* third.  The program is straight-line code of one-byte opcodes and no
\* interrupt is enabled, so PC counts the steps taken.
C1_EiTakesEffectOneStepLater ==
    rom = <<251, 0, 0>> =>
        /\ cpu.regs.pc = 0 => cpu.ime = "Disabled"
        /\ cpu.regs.pc = 1 => cpu.ime = "PendingEnable"
        /\ cpu.regs.pc = 2 => cpu.ime = "Enabled"
        /\ cpu.regs.pc = 3 => cpu.ime = "Enabled"

C1_Witness ==
    /\ rom = <<251, 0, 0>>
    /\ cpu.regs.pc = 3
    /\ cpu.ime = "Enabled"
    /\ obs.fetched = <<0>>

\* C2: running the program [EI, DI, NOP] from IME Disabled, IME is
\* PendingEnable after the first step and Disabled after the second and the
\* third: DI cancels the enable EI had scheduled.
C2_DiCancelsPendingEnable ==
    rom = <<251, 243, 0>> =>
        /\ cpu.regs.pc = 1 => cpu.ime = "PendingEnable"
        /\ cpu.regs.pc = 2 => cpu.ime = "Disabled"
        /\ cpu.regs.pc = 3 => cpu.ime = "Disabled"

C2_Witness ==
    /\ rom = <<251, 243, 0>>
    /\ cpu.regs.pc = 3
    /\ cpu.ime = "Disabled"
    /\ obs.fetched = <<0>>

\* C3: a step services an interrupt source if and only if IME is Enabled at
\* the start of the step and some source is both enabled and requested; the
\* source it services is one of those; with IME Disabled or PendingEnable
\* nothing is serviced, and with IME Enabled and a pending source exactly
\* one source is serviced.
C3_ServicedIffEnabledAndPending ==
    [][ LET pending == mmu.interrupts_enabled \cap mmu.interrupts_requested
        IN  /\ (obs'.serviced # {}) <=> (cpu.ime = "Enabled" /\ pending # {})
            /\ obs'.serviced \subseteq pending
            /\ cpu.ime \in {"Disabled", "PendingEnable"} => obs'.serviced = {}
            /\ (cpu.ime = "Enabled" /\ pending # {}) => Cardinality(obs'.serviced) = 1
      ]_vars

C3_Witness ==
    /\ Cardinality(obs.serviced) = 1
    /\ obs.at_fetch.ime = "Disabled"
    /\ Cardinality(obs.at_fetch.interrupts_requested) >= 1

\* C4: when a step services source s, then before that step's opcode fetch
\* IME is Disabled, IF has lost bit s and nothing else (it has gained only
\* what the 20 charged T-cycles requested), the CPU is not halted, the PC of
\* the start of the step lies on the stack (SP lower by 2, low byte at SP,
\* high byte at SP + 1), PC is 0x40 / 0x48 / 0x50 / 0x58 / 0x60 for VBlank /
\* LCD STAT / Timer / Serial / Joypad, and the MMU has been advanced by 20
\* T-cycles.
C4_ServiceEffects ==
    [][ \A s \in obs'.serviced :
            LET f == obs'.at_fetch
            IN  /\ f.ime = "Disabled"
                /\ f.interrupts_requested = (mmu.interrupts_requested \ {s}) \cup f.raised
                /\ ~f.is_halted
                /\ f.sp = (cpu.regs.sp + 65534) % 65536
                /\ f.stack_top = <<cpu.regs.pc % 256, cpu.regs.pc \div 256>>
                /\ f.pc = (CASE s = "Vblank" -> 64
                             [] s = "LcdStat" -> 72
                             [] s = "Timer" -> 80
                             [] s = "Serial" -> 88
                             [] s = "Joypad" -> 96)
                /\ Head(obs'.charged) = 20
                /\ f.divider_count = mmu.divider.t_cycles_count + 20
      ]_vars

C4_Witness ==
    /\ obs.serviced = {"Vblank"}
    /\ obs.was_halted
    /\ obs.at_fetch.pc = 64
    /\ obs.at_fetch.sp = 65532
    /\ obs.at_fetch.stack_top # <<0, 0>>
    /\ obs.at_fetch.interrupts_requested # {}

\* C5: among several pending sources the step services the first in the
\* order VBlank, LCD STAT, Timer, Serial, Joypad (the order of their bits in
\* IF); with Timer and Serial pending it jumps to 0x50 and leaves the Serial
\* bit in IF.
C5_PriorityOrder ==
    [][ LET pending == mmu.interrupts_enabled \cap mmu.interrupts_requested
        IN  /\ \A s \in obs'.serviced : \A k \in pending : InterruptBit(s) <= InterruptBit(k)
            /\ (cpu.ime = "Enabled" /\ pending = {"Timer", "Serial"}) =>
                   /\ obs'.at_fetch.pc = 80
                   /\ "Serial" \in obs'.at_fetch.interrupts_requested
      ]_vars

\* C6: a step that starts with the CPU halted, IME not Enabled and a source
\* both enabled and requested clears the halt and executes the instruction
\* at PC without servicing anything (IF, SP and PC are untouched before the
\* fetch); a step that starts with the CPU halted and no source both enabled
\* and requested leaves it halted, fetches nothing and leaves PC alone.
C6_HaltWakeWithoutService ==
    [][ LET pending == mmu.interrupts_enabled \cap mmu.interrupts_requested
        IN  /\ (cpu.is_halted /\ cpu.ime # "Enabled" /\ pending # {}) =>
                   /\ obs'.serviced = {}
                   /\ ~obs'.at_fetch.is_halted
                   /\ obs'.fetched # <<>>
                   /\ obs'.at_fetch.pc = cpu.regs.pc
                   /\ obs'.at_fetch.sp = cpu.regs.sp
                   /\ obs'.at_fetch.interrupts_requested = mmu.interrupts_requested
            /\ (cpu.is_halted /\ pending = {}) =>
                   /\ cpu'.is_halted
                   /\ obs'.fetched = <<>>
                   /\ cpu'.regs.pc = cpu.regs.pc
      ]_vars

C6_Witness ==
    /\ obs.was_halted
    /\ obs.serviced = {}
    /\ obs.fetched = <<62>>
    /\ ~cpu.is_halted
    /\ cpu.ime = "Disabled"

\* C7: every opcode Cpu::execute returns from, unprefixed or CB-prefixed,
\* branch taken or not, reports a T-cycle count that is a multiple of 4
\* between 4 and 24, so the assertion of Cpu::step holds.
C7_TCyclesMultipleOfFour ==
    exec.state = "returned" =>
        /\ exec.t_cycles % 4 = 0
        /\ 4 <= exec.t_cycles
        /\ exec.t_cycles <= 24
        /\ exec.assertion

C7_Witness ==
    /\ exec.state = "returned"
    /\ exec.opcode = 196
    /\ exec.f = 0
    /\ exec.t_cycles = 24

\* C8: the PPU's line is in 0..143 exactly when its mode is OAM scan, pixel
\* transfer or horizontal blank, in 144..153 exactly when its mode is
\* vertical blank, and never above 153, after every Ppu::step and every
\* register write, the LCDC write that switches the LCD off included.
C8_LineModeInvariant ==
    /\ (ppu.line \in 0 .. 143) <=> (ppu.mode \in {"ScanlineOAM", "ScanlineVRAM", "HorizontalBlank"})
    /\ (ppu.line \in 144 .. 153) <=> (ppu.mode = "VerticalBlank")
    /\ ppu.line <= 153

C8_Witness ==
    /\ ~ppu.lcd_enabled
    /\ lcdc_writes = 2
    /\ ppu.line = 0
    /\ ppu.mode = "HorizontalBlank"
    /\ ppu.last_full_frame[0] = "white_line"

\* C9: a Ppu::step requests the VBlank interrupt exactly when it moves the
\* line from 143 to 144, and that step copies the working LCD into
\* last_full_frame.
C9_VblankOncePerFrame ==
    [][ DoPpuStep =>
            /\ ("Vblank" \in ppu_ret') <=> (ppu.line = 143 /\ ppu'.line = 144)
            /\ (ppu.line = 143 /\ ppu'.line = 144) =>
                   /\ ppu'.last_full_frame = ppu.lcd_display
                   /\ ppu'.last_full_frame = ppu'.lcd_display
      ]_vars

C9_Witness ==
    /\ "Vblank" \in ppu_ret
    /\ ppu.line = 144
    /\ ppu.mode = "VerticalBlank"
    /\ ppu.last_full_frame[143] = "white_line"

\* C10: the grid resolve_display hands to the host is the last_full_frame
\* snapshot, so it is constant between two HBlank-to-VBlank transitions.
C10_ResolveDisplayIsLastFullFrame ==
    resolve_display = ppu.last_full_frame


\* C11: every Ppu::step that enters HBlank, VBlank or OAM scan requests
\* LCDStat on account of that entry if and only if the STAT select bit of
\* the mode entered is set (what is left to the LYC comparison aside): this
\* for the entry into OAM scan from HBlank and from VBlank at the wrap of
\* line 153 to 0 alike.
C11_StatOnModeEntry ==
    [][ DoPpuStep =>
            LET entered == ppu'.mode # ppu.mode
                select == CASE ppu'.mode = "HorizontalBlank" -> ppu.lcd_status.mode_0_int_select
                            [] ppu'.mode = "VerticalBlank" -> ppu.lcd_status.mode_1_int_select
                            [] ppu'.mode = "ScanlineOAM" -> ppu.lcd_status.mode_2_int_select
                            [] OTHER -> FALSE
                lycHit == /\ ppu'.line # ppu.line
                          /\ ppu.lcd_status.lyc_int_select
                          /\ ppu.lyc = ppu'.line
            IN  (entered /\ ppu'.mode # "ScanlineVRAM") =>
                    /\ select => "LcdStat" \in ppu_ret'
                    /\ (~select /\ ~lycHit) => "LcdStat" \notin ppu_ret'
      ]_vars

C13_OneTickPerPeriod ==
    LET period == CASE mmu.timer.frequency = "F4KiHz" -> 1024
                    [] mmu.timer.frequency = "F16KiHz" -> 256
                    [] mmu.timer.frequency = "F64KiHz" -> 64
                    [] mmu.timer.frequency = "F256KiHz" -> 16
    IN  /\ mmu.timer.enabled => tim.ticks = mmu.timer.t_cycles_count \div period
        /\ mmu.divider.value = (mmu.divider.t_cycles_count \div 256) % 256
        /\ ~mmu.timer.enabled => (tim.ticks = 0 /\ ~tim.timer_ret)

\* C14: in an Mmu::step whose timer update takes the value from 0xFF to
\* 0x00, the update returns true, the value is reloaded from TMA and the
\* Timer bit is set in IF; the timer's update returns true in no other
\* step, and no step sets a bit of IF for anything else, a divider overflow
\* included.
C14_TimerOverflow ==
    [][ DoTimerStep =>
            LET wrapped == /\ mmu.timer.enabled
                           /\ mmu.timer.value = 255
                           /\ tim'.ticks = tim.ticks + 1
            IN  /\ wrapped => /\ tim'.timer_ret
                              /\ mmu'.timer.value = mmu.timer.tma
                              /\ "Timer" \in mmu'.interrupts_requested
                /\ tim'.timer_ret => wrapped
                /\ mmu'.interrupts_requested =
                       mmu.interrupts_requested
                       \cup (IF tim'.timer_ret THEN {"Timer"} ELSE {})
      ]_vars

C14_Witness ==
    /\ tim.timer_ret
    /\ tim.divider_overflowed
    /\ mmu.timer.value = 254
    /\ mmu.timer.tma = 254
    /\ mmu.interrupts_requested = {"Timer"}


\* C15: whatever the cartridge variant and whatever was written to it, a
\* read below 0x4000 returns the byte of ROM bank 0 at that offset, and
\* every ROM byte still is the byte of the game ROM: writes below 0x8000
\* have changed no ROM byte.
C15_RomIsReadOnly ==
    /\ \A addr \in {0, 16383} : CartRead(cart, addr) = <<GameRom(addr)>>
    /\ cart.kind = "NoMbc" => cart.rom = NoMbcNew.rom
    /\ cart.kind \in {"Mbc1", "Mbc3"} => cart.rom_banks = RomBanks

C15_Witness ==
    /\ cart.kind = "Mbc1"
    /\ cart.rom_bank_idx = 2
    /\ cart.ram_bank_idx = 2
    /\ cart.ram_enable
    /\ CartRead(cart, 16384) = <<GameRom(2 * RomBankSize)>>
    /\ CartRead(cart, 0) = <<GameRom(0)>>


\* C16: an MBC1 cartridge starts with its RAM disabled; a write to
\* 0x0000-0x1FFF enables the RAM exactly when the low nibble of the byte is
\* 0xA and no other write changes the enable; while the RAM is disabled a
\* read of 0xA000-0xBFFF returns 0xFF and a write there leaves every RAM
\* bank as it was.
C16_Mbc1RamEnable ==
    /\ cart.kind = "Mbc1" => ~cart.ram_enable
    /\ []((cart.kind = "Mbc1" /\ ~cart.ram_enable) => CartRead(cart, 40960) = <<255>>)
    /\ [][ \A addr \in CartAddrs : \A byte \in CartBytes(addr) :
               (cart.kind = "Mbc1" /\ CartWriteAt(addr, byte)) =>
                   /\ addr \in 0 .. 8191 => (cart'.ram_enable <=> (byte % 16 = 10))
                   /\ addr \notin 0 .. 8191 => (cart'.ram_enable <=> cart.ram_enable)
                   /\ ~cart.ram_enable => cart'.ram_banks = cart.ram_banks
         ]_vars

C16_Witness ==
    /\ cart.kind = "Mbc1"
    /\ ~cart.ram_enable
    /\ ~cart.panicked
    /\ cart.ram_banks[1][0] = 85
    /\ cart.ram_bank_idx = 1
    /\ CartRead(cart, 40960) = <<255>>

\* C17: a write to an MBC3 cartridge updates the clock registers from the
\* wall clock exactly when it writes 0x01 to 0x6000-0x7FFF while the latch
\* is Staged, and that write leaves the latch Latched; a write of 0x00
\* there stages the latch; a 0x01 written while the latch is Latched (none
\* staged, or already consumed) changes nothing, and neither does the
\* passing of time.
C17_Mbc3LatchRefresh ==
    [][ cart.kind = "Mbc3" =>
            LET updated == cart'.clock_registers.update_calls
                               # cart.clock_registers.update_calls
            IN  /\ updated =>
                       /\ cart.latch_state = "Staged"
                       /\ cart'.latch_state = "Latched"
                       /\ \E addr \in CartAddrs \cap (24576 .. 32767) : CartWriteAt(addr, 1)
                /\ \A addr \in CartAddrs \cap (24576 .. 32767) :
                       /\ (CartWriteAt(addr, 1) /\ cart.latch_state = "Staged") => updated
                       /\ (CartWriteAt(addr, 1) /\ cart.latch_state = "Latched") => cart' = cart
                       /\ CartWriteAt(addr, 0) => cart'.latch_state = "Staged"
                /\ DoWallClockTick => cart' = cart
      ]_vars

C17_Witness ==
    /\ cart.kind = "Mbc3"
    /\ cart.clock_registers.update_calls = 2
    /\ cart.clock_registers.seconds = 2
    /\ cart.clock_registers.last_update_time = 2
    /\ cart.latch_state = "Latched"


\* C18 (as stated): after a write of a byte to 0xFF00 the select mode is None
\* (Neither) when bits 5 and 4 are both high, DPad when bit 5 is low and bit 4
\* high, Buttons when bit 4 is low and bit 5 high, All (Both) when both are low.
C18_SelectFromBits ==
    joy.written # <<>> =>
        LET byte == joy.written[1]
        IN  /\ (Bit(byte, 5) /\ Bit(byte, 4)) => mmu.joypad_select = "None"
            /\ (~Bit(byte, 5) /\ Bit(byte, 4)) => mmu.joypad_select = "DPad"
            /\ (Bit(byte, 5) /\ ~Bit(byte, 4)) => mmu.joypad_select = "Buttons"
            /\ (~Bit(byte, 5) /\ ~Bit(byte, 4)) => mmu.joypad_select = "All"

\* C18 (amended): after a write of a byte to 0xFF00 the select mode is None
\* (Neither) when bits 5 and 4 are both high, Buttons when bit 5 is low and bit 4
\* high, DPad when bit 4 is low and bit 5 high, All (Both) when both are low;
\* before any write it is None.
C18_SelectFromBitsAmended ==
    /\ joy.written = <<>> => mmu.joypad_select = "None"
    /\ joy.written # <<>> =>
            LET byte == joy.written[1]
            IN  /\ (Bit(byte, 5) /\ Bit(byte, 4)) => mmu.joypad_select = "None"
                /\ (~Bit(byte, 5) /\ Bit(byte, 4)) => mmu.joypad_select = "Buttons"
                /\ (Bit(byte, 5) /\ ~Bit(byte, 4)) => mmu.joypad_select = "DPad"
                /\ (~Bit(byte, 5) /\ ~Bit(byte, 4)) => mmu.joypad_select = "All"

\* 0xEF was written (bit 4 low, the other bits high) and the d-pad is selected
C18_Witness ==
    /\ joy.written = <<239>>
    /\ mmu.joypad_select = "DPad"
    /\ mmu.pressed_buttons = {"Left"}

\* C19: a byte read from 0xFF00 has, with Buttons selected, bits 0..3 clear
\* exactly when A, B, Select, Start are pressed; with DPad selected, bits 0..3
\* clear exactly when Right, Left, Up, Down are pressed; with None (Neither)
\* selected, a low nibble of 0xF whatever is pressed.
C19_ReadActiveLow ==
    joy.read # <<>> =>
        LET byte == joy.read[1]
            pressed == mmu.pressed_buttons
        IN  /\ mmu.joypad_select = "Buttons" =>
                    /\ ~Bit(byte, 0) <=> "A" \in pressed
                    /\ ~Bit(byte, 1) <=> "B" \in pressed
                    /\ ~Bit(byte, 2) <=> "Select" \in pressed
                    /\ ~Bit(byte, 3) <=> "Start" \in pressed
            /\ mmu.joypad_select = "DPad" =>
                    /\ ~Bit(byte, 0) <=> "Right" \in pressed
                    /\ ~Bit(byte, 1) <=> "Left" \in pressed
                    /\ ~Bit(byte, 2) <=> "Up" \in pressed
                    /\ ~Bit(byte, 3) <=> "Down" \in pressed
            /\ mmu.joypad_select = "None" => byte % 16 = 15

\* with Buttons selected and A, Start and Left held down, the read gave 0xD6
C19_Witness ==
    /\ mmu.joypad_select = "Buttons"
    /\ mmu.pressed_buttons = {"A", "Start", "Left"}
    /\ joy.read = <<214>>


\* C20: a write of X to 0xFF46 copies the 160 bytes at X*0x100 .. X*0x100+0x9F
\* into OAM: a read of 0xFE00+i afterwards returns the byte that was at
\* X*0x100+i, with the low 4 bits of every attribute byte (i mod 4 = 3) read
\* back as 0, and nothing outside OAM is changed.
C20_OamDmaCopies ==
    [][ mem'.dma # <<>> =>
            LET X == mem'.dma[1]
                before == Machine
                after == Machine'
            IN  /\ X \in DmaPages
                /\ \A i \in 0 .. 159 :
                       LET source == MmuReadByte(before, X * 256 + i)
                       IN  MmuReadByte(after, 65024 + i) =
                               IF i % 4 = 3 THEN source - (source % 16) ELSE source
                /\ mem'.work_ram = mem.work_ram
                /\ UNCHANGED <<cpu, mmu, ppu, ppu_ret, timer_aux, cart_aux, joy>> ]_vars

\* a transfer from 0xC000 was made when 0xC000 held 0x5A and 0xC003 held 0xFF:
\* the first byte of OAM reads 0x5A and the attribute byte of object 0 reads 0xF0
C20_Witness ==
    /\ mem.dma = <<192>>
    /\ mem.work_ram[0] = 90
    /\ mem.work_ram[3] = 255
    /\ MmuReadByte(Machine, 65024) = 90
    /\ MmuReadByte(Machine, 65027) = 240


\* C21: a read of an I/O address (0xFF00..0xFF7F) that has no register returns
\* 0xFF without aborting, and a write to such an address changes no state.
C21_UnlistedIo ==
    /\ []((io.addr # <<>> /\ io.written = <<>>) => io.read = <<255>>)
    /\ [][ io'.written # <<>> =>
                UNCHANGED <<cpu, mmu, ppu, ppu_ret, timer_aux, cart_aux, joy, mem>> ]_vars


\* C22: starting from F = 0, after any sequence of executed instructions the
\* low nibble of F is zero; POP AF stores the popped low byte with its low
\* nibble masked to 0.
C22_FlagLowNibble ==
    /\ [](cpu.regs.f % 16 = 0)
    /\ [][ exec'.state = "pop_af" =>
                LET lo == MmuReadByte(Machine, cpu.regs.sp)
                IN  cpu'.regs.f = lo - (lo % 16) ]_vars

\* POP AF has just popped a low byte of 0xFF: F is 0xF0
C22_Witness ==
    /\ exec.state = "pop_af"
    /\ cpu.regs.sp <= 65534
    /\ cpu.regs.sp >= 65532
    /\ MmuReadByte(Machine, cpu.regs.sp - 2) = 255
    /\ cpu.regs.f = 240


\* C23: decoding a byte into a palette and encoding the palette back yields the
\* byte, for every byte 0 .. 255, so a read of BGP, OBP0 or OBP1 returns the
\* byte last written.
C23_PaletteRoundTrip ==
    io.read # <<>> =>
        /\ io.read = io.written
        /\ ColorPaletteInto(ColorPaletteFrom(io.written[1])) = io.written[1]


\* C24: PC arithmetic wraps modulo 2^16 and never aborts: fetching an opcode
\* byte or an immediate byte at PC = 0xFFFF leaves PC = 0, and JR / JR cc add
\* the sign-extended offset to the PC after the offset byte, with wraparound.
C24_PcWraps ==
    /\ [](exec.state # "panic")
    /\ [][ /\ exec'.state \in {"fetch_opcode", "fetch_imm8"} =>
                  cpu'.regs.pc = (cpu.regs.pc + 1) % 65536
           /\ (exec'.state = "jr" \/ (exec'.state = "jr_cc" /\ exec'.taken)) =>
                  cpu'.regs.pc = (cpu.regs.pc + 1 + as_i8(exec'.imm) + 65536) % 65536
           /\ (exec'.state = "jr_cc" /\ ~exec'.taken) =>
                  cpu'.regs.pc = (cpu.regs.pc + 1) % 65536 ]_vars


\* C25: CCF (0x3F), SCF (0x37) and CPL (0x2F) each take 4 T-cycles.
C25_FlagOpsTakeFour ==
    (exec.state = "returned" /\ exec.opcode \in {63, 55, 47}) => exec.t_cycles = 4


(***************************************************************************)
(* Ppu::draw_scan_line_internal, the objects.  A ColorId is its number     *)
(* 0..3, a TileLine the sequence of its eight colour ids, leftmost first,  *)
(* a DisplayLine the function from LCD column to Color.                    *)
(***************************************************************************)
\* the number of objects the PPU keeps per line
ObjectsPerLine == 10

\* ObjSize::height
height(obj_size) == IF obj_size = "Dim8x8" THEN 8 ELSE 16

\* ColorPalette::lookup
lookup(palette, color_id) == palette[color_id + 1]

\* the tile data the scenes are drawn with: line r of tile t has one colour,
\* which differs between neighbouring tiles and neighbouring lines, and one
\* transparent pixel on the diagonal
SceneTile(t) ==
    [r \in 0 .. 7 |-> [c \in 1 .. 8 |-> IF c = r + 1 THEN 0 ELSE ((t + r) % 3) + 1]]

SceneVRamTiles ==
    [ block0 |-> [i \in 0 .. 127 |-> SceneTile(i)],
      block1 |-> [i \in 0 .. 127 |-> SceneTile(i + 128)] ]

\* VRamTiles::get_tile_from_0x8000
get_tile_from_0x8000(vram_tiles, tile_idx) ==
    IF tile_idx < 128 THEN vram_tiles.block0[tile_idx] ELSE vram_tiles.block1[tile_idx % 128]

\* the closure obj_lines: the LCD lines the object covers
obj_lines(obj, obj_size) ==
    LET obj_lcd_y == obj.y_pos - 16
    IN  obj_lcd_y .. (obj_lcd_y + height(obj_size) - 1)

\* .filter(..).take(n): the OAM indices of the first n objects that cover the line
take_on_line_all(oam, lcd_line, obj_size, n) ==
    { i \in DOMAIN oam : lcd_line \in obj_lines(oam[i], obj_size) }

take_on_line(oam, lcd_line, obj_size, n) ==
    LET on_line == { i \in DOMAIN oam : lcd_line \in obj_lines(oam[i], obj_size) }
    IN  { i \in on_line : Cardinality({ j \in on_line : j < i }) < n }

\* v.sort_by_key(|obj| obj.x_pos): the position of OAM entry i among the kept
\* entries; the sort is stable, so entries with equal x_pos keep their OAM order
sort_by_key_later_first(oam, kept, i) ==
    Cardinality({ j \in kept : \/ oam[j].x_pos < oam[i].x_pos
                               \/ oam[j].x_pos = oam[i].x_pos /\ j > i }) + 1

sort_by_key(oam, kept, i) ==
    Cardinality({ j \in kept : \/ oam[j].x_pos < oam[i].x_pos
                               \/ oam[j].x_pos = oam[i].x_pos /\ j < i }) + 1

\* prioritized_objects_on_line, as the sequence of OAM indices
prioritized_objects_on_line(oam, lcd_line, obj_size) ==
    LET kept == take_on_line(oam, lcd_line, obj_size, ObjectsPerLine)
    IN  [k \in 1 .. Cardinality(kept) |-> CHOOSE i \in kept : sort_by_key(oam, kept, i) = k]

\* obj_tiles_row_idx: the line of the object's tiles to draw on lcd_line
obj_tiles_row_idx_unflipped(obj, lcd_line, obj_size) ==
    lcd_line - (obj.y_pos - 16)

obj_tiles_row_idx(obj, lcd_line, obj_size) ==
    LET obj_lcd_y == obj.y_pos - 16
    IN  IF obj.y_flip
        THEN height(obj_size) - (lcd_line - obj_lcd_y) - 1
        ELSE lcd_line - obj_lcd_y

\* pixel_row: the colour ids of the object's eight pixels on lcd_line
pixel_row(obj, lcd_line, obj_size, vram_tiles) ==
    LET row_idx == obj_tiles_row_idx(obj, lcd_line, obj_size)
        base_tile_idx == obj.tile_idx - (obj.tile_idx % 2)
        ids == IF row_idx < 8
               THEN get_tile_from_0x8000(vram_tiles, obj.tile_idx)[row_idx]
               ELSE get_tile_from_0x8000(vram_tiles, base_tile_idx + 1)[row_idx - 8]
    IN  IF obj.x_flip THEN [c \in 1 .. 8 |-> ids[9 - c]] ELSE ids

\* the body of the loop over the prioritized objects: the line with obj drawn on it
draw_obj(result, bg_line_color_ids, lcd_line, obj_size, vram_tiles, obj, obj_palettes) ==
    LET row == pixel_row(obj, lcd_line, obj_size, vram_tiles)
        palette == obj_palettes[IF obj.palette = "Zero" THEN 0 ELSE 1]
    IN  [lcd_col_idx \in 0 .. 159 |->
            LET pixel_idx == lcd_col_idx - (obj.x_pos - 8)
            IN  IF /\ pixel_idx \in 0 .. 7
                   /\ row[pixel_idx + 1] # 0
                   /\ \/ obj.bg_over_obj_priority = "Zero"
                      \/ bg_line_color_ids[lcd_col_idx] = 0
                THEN lookup(palette, row[pixel_idx + 1])
                ELSE result[lcd_col_idx]]

\* for obj in prioritized_objects_on_line.iter().rev(): the objects order[1..k]
\* drawn from order[k] down to order[1]
RECURSIVE draw_objs_rev(_, _, _, _, _, _, _, _)
draw_objs_rev(result, bg_line_color_ids, lcd_line, obj_size, vram_tiles, oam, obj_palettes, order) ==
    IF order = <<>>
    THEN result
    ELSE draw_objs_rev(
            draw_obj(result, bg_line_color_ids, lcd_line, obj_size, vram_tiles,
                     oam[order[Len(order)]], obj_palettes),
            bg_line_color_ids, lcd_line, obj_size, vram_tiles, oam, obj_palettes,
            SubSeq(order, 1, Len(order) - 1))

\* Ppu::draw_scan_line with objects enabled, for a line whose background and
\* window pixels have the colour ids bg_line_color_ids (all Id0 with the
\* background disabled)
draw_scan_line_objects(p, oam, obj_size, bg_line_color_ids, vram_tiles) ==
    LET result == IF p.bg_enabled
                  THEN [c \in 0 .. 159 |-> lookup(p.bg_color_palette, bg_line_color_ids[c])]
                  ELSE [c \in 0 .. 159 |-> "White"]
        order == prioritized_objects_on_line(oam, p.line, obj_size)
    IN  draw_objs_rev(result, bg_line_color_ids, p.line, obj_size, vram_tiles, oam,
                      p.obj_color_palettes, order)


(***************************************************************************)
(* Scan lines with objects: object attribute memory holds a row of equal   *)
(* objects followed by two objects a and b, and the PPU draws some lines.  *)
(***************************************************************************)
\* the lines drawn
SceneLines == {0, 7, 8, 15, 17}

\* how many equal objects precede a and b in OAM
CrowdSizes == {0, ObjectsPerLine - 1, ObjectsPerLine}

CrowdObject == [ObjectAttributesNew EXCEPT !.y_pos = 16, !.x_pos = 100]

SceneObjectsA ==
    { [ObjectAttributesNew EXCEPT !.y_pos = y, !.x_pos = x, !.tile_idx = tile,
                                  !.y_flip = flip, !.bg_over_obj_priority = priority] :
        y \in {16, 18}, x \in {8, 12}, tile \in {2, 3}, flip \in BOOLEAN,
        priority \in {"Zero", "One"} }

SceneObjectsB ==
    { [ObjectAttributesNew EXCEPT !.y_pos = y, !.x_pos = x, !.tile_idx = 1,
                                  !.x_flip = flip, !.palette = "One"] :
        y \in {16, 24}, x \in {8, 10}, flip \in BOOLEAN }

SceneOams ==
    { [i \in 0 .. 39 |-> CASE i < crowd -> CrowdObject
                           [] i = crowd -> a
                           [] i = crowd + 1 -> b
                           [] OTHER -> ObjectAttributesNew] :
        crowd \in CrowdSizes, a \in SceneObjectsA, b \in SceneObjectsB }

\* the background's colour ids on the line: pairs of Id0 and Id1 pixels
SceneBgLine == [c \in 0 .. 159 |-> (c \div 2) % 2]

InitObjects ==
    /\ cpu = CpuNew
    /\ mmu = MmuNew
    /\ ppu \in { [PpuNew EXCEPT !.bg_enabled = bg,
                                !.bg_color_palette = ColorPaletteFrom(228),
                                !.obj_color_palettes = [i \in 0 .. 1 |->
                                    ColorPaletteFrom(IF i = 0 THEN 228 ELSE 27)]] :
                 bg \in BOOLEAN }
    /\ ppu_ret = {}
    /\ obs = ObsNew
    /\ rom = <<>>
    /\ exec = ExecNew
    /\ lcdc_writes = 0
    /\ tim = TimNew
    /\ cart = NoMbcNew
    /\ wall = 0
    /\ joy = JoyNew
    /\ mem \in { [MemNew EXCEPT !.obj_attribute_memory = oam] : oam \in SceneOams }
    /\ io = IoNew
    /\ build = BuildNew
    /\ scene \in { [SceneNew EXCEPT !.obj_size = obj_size,
                                    !.bg_line_color_ids =
                                        IF ppu.bg_enabled THEN SceneBgLine ELSE @] :
                   obj_size \in {"Dim8x8", "Dim8x16"} }

\* the PPU is on line lcd_line and draws it (Ppu::draw_scan_line)
DoDrawScanLine ==
    \E lcd_line \in SceneLines :
        LET p == [ppu EXCEPT !.line = lcd_line]
        IN  /\ scene.draws < MaxDraws
            /\ ppu' = p
            /\ scene' = [scene EXCEPT !.draws = @ + 1, !.out =
                    <<draw_scan_line_objects(p, mem.obj_attribute_memory, scene.obj_size,
                                             scene.bg_line_color_ids, SceneVRamTiles)>>]
            /\ UNCHANGED <<cpu, mmu, ppu_ret, obs, rom, exec, lcdc_writes, timer_aux,
                           cart_aux, joy, mem, io, build>>

NextObjects == DoDrawScanLine

SpecObjects == InitObjects /\ [][NextObjects]_vars


(***************************************************************************)
(* The vocabulary of the object claims, on the line last drawn.            *)
(***************************************************************************)
Oam == mem.obj_attribute_memory

\* the OAM entries the PPU selected for the drawn line, each with the colour
\* ids of its eight pixels on that line
SelectedRows ==
    [ i \in take_on_line(Oam, ppu.line, scene.obj_size, ObjectsPerLine) |->
        pixel_row(Oam[i], ppu.line, scene.obj_size, SceneVRamTiles) ]

\* the colour id object i has on LCD column c of the drawn line (Id0 off the object)
ObjColorIdAt(rows, i, c) ==
    LET pixel_idx == c - (Oam[i].x_pos - 8)
    IN  IF pixel_idx \in 0 .. 7 THEN rows[i][pixel_idx + 1] ELSE 0

\* the colour object i shows on column c
ObjColorAt(rows, i, c) ==
    lookup(ppu.obj_color_palettes[IF Oam[i].palette = "Zero" THEN 0 ELSE 1],
           ObjColorIdAt(rows, i, c))

\* object i has a pixel to show on column c: not transparent, not behind the background
ShowsAt(rows, i, c) ==
    /\ ObjColorIdAt(rows, i, c) # 0
    /\ Oam[i].bg_over_obj_priority = "Zero" \/ scene.bg_line_color_ids[c] = 0

\* object i has priority over object j
HasPriority(i, j) ==
    \/ Oam[i].x_pos < Oam[j].x_pos
    \/ Oam[i].x_pos = Oam[j].x_pos /\ i < j

\* C26: on a drawn line, on every column where two selected objects with
\* bg_over_obj_priority false both have a non-transparent pixel, the pixel shown
\* is not that of the object with the larger x_pos (or, for equal x_pos, the
\* later one in OAM): it is the pixel of the selected object that has priority
\* over every other selected object with a pixel to show there.
C26_ObjectPriority ==
    scene.out # <<>> =>
        LET rows == SelectedRows
            out == scene.out[1]
        IN  \A c \in 0 .. 159 :
                LET zero == { i \in DOMAIN rows : /\ ObjColorIdAt(rows, i, c) # 0
                                                  /\ Oam[i].bg_over_obj_priority = "Zero" }
                    shown == { i \in DOMAIN rows : ShowsAt(rows, i, c) }
                IN  Cardinality(zero) >= 2 =>
                        \E i \in shown :
                            /\ \A j \in shown \ {i} : HasPriority(i, j)
                            /\ out[c] = ObjColorAt(rows, i, c)

\* a line was drawn on which the object later in OAM has the smaller x_pos and
\* its pixel, of another colour, is the one shown
C26_Witness ==
    /\ scene.out # <<>>
    /\ LET rows == SelectedRows
       IN  \E c \in 0 .. 159 : \E i, j \in DOMAIN rows :
            /\ i < j
            /\ Oam[j].x_pos < Oam[i].x_pos
            /\ Oam[i].bg_over_obj_priority = "Zero" /\ Oam[j].bg_over_obj_priority = "Zero"
            /\ ObjColorIdAt(rows, i, c) # 0 /\ ObjColorIdAt(rows, j, c) # 0
            /\ ObjColorAt(rows, i, c) # ObjColorAt(rows, j, c)
            /\ scene.out[1][c] = ObjColorAt(rows, j, c)


\* object i covers the drawn line: the line is in [y_pos - 16, y_pos - 16 + height)
CoversLine(i) ==
    /\ Oam[i].y_pos - 16 <= ppu.line
    /\ ppu.line < Oam[i].y_pos - 16 + (IF scene.obj_size = "Dim8x16" THEN 16 ELSE 8)

\* the first ten OAM entries, in OAM order, that cover the drawn line
FirstTenOnLine ==
    { i \in 0 .. 39 : CoversLine(i) /\ Cardinality({ j \in 0 .. (i - 1) : CoversLine(j) }) < 10 }

\* the colour of column c of the drawn line before any object is drawn
BackgroundColorAt(c) ==
    IF ppu.bg_enabled THEN lookup(ppu.bg_color_palette, scene.bg_line_color_ids[c]) ELSE "White"

\* C27: on a drawn line every pixel is the background's or that of one of the
\* first 10 OAM entries, in OAM order, whose vertical range contains the line
\* (at most 10 objects are drawn); where none of those ten has a pixel to show
\* the background stays, whatever the 11th and later entries on the line are.
C27_FirstTenObjects ==
    scene.out # <<>> =>
        LET first == FirstTenOnLine
            rows == [i \in first |-> pixel_row(Oam[i], ppu.line, scene.obj_size, SceneVRamTiles)]
            out == scene.out[1]
        IN  /\ Cardinality(first) <= 10
            /\ \A c \in 0 .. 159 :
                LET shown == { i \in first : ShowsAt(rows, i, c) }
                IN  IF shown = {}
                    THEN out[c] = BackgroundColorAt(c)
                    ELSE \E i \in shown : out[c] = ObjColorAt(rows, i, c)

\* a line was drawn that an 11th object covers, with an x_pos smaller than that
\* of the ten before it and a visible pixel of another colour than the
\* background on a column that shows the background
C27_Witness ==
    /\ scene.out # <<>>
    /\ \E e \in 0 .. 39 : \E c \in 0 .. 159 :
        /\ CoversLine(e)
        /\ Cardinality({ j \in 0 .. (e - 1) : CoversLine(j) }) = 10
        /\ \A j \in FirstTenOnLine : Oam[e].x_pos < Oam[j].x_pos
        /\ LET rows == [i \in {e} |-> pixel_row(Oam[i], ppu.line, scene.obj_size, SceneVRamTiles)]
           IN  /\ ShowsAt(rows, e, c)
               /\ ObjColorAt(rows, e, c) # BackgroundColorAt(c)
        /\ scene.out[1][c] = BackgroundColorAt(c)


\* C28: in 8x16 object mode the low bit of tile_idx is ignored: a line is drawn
\* as it would be with the low bit of every object's tile_idx cleared (rows 0-7
\* from tile_idx AND 0xFE, rows 8-15 from that tile + 1).
C28_TileIdxLowBitIgnored ==
    (scene.out # <<>> /\ scene.obj_size = "Dim8x16") =>
        scene.out[1] =
            draw_scan_line_objects(ppu,
                [i \in 0 .. 39 |-> [Oam[i] EXCEPT !.tile_idx = @ - (@ % 2)]],
                scene.obj_size, scene.bg_line_color_ids, SceneVRamTiles)


\* sprite row r (0..15) of the 8x16 object obj: what the object shows, without
\* y_flip, on the r-th of the lines it covers
SpriteRow(obj, r) ==
    pixel_row([obj EXCEPT !.y_flip = FALSE], (obj.y_pos - 16) + r, "Dim8x16", SceneVRamTiles)

\* line r (0..7) of tile tile_idx as the object obj shows it
TileRow(obj, tile_idx, r) ==
    LET ids == get_tile_from_0x8000(SceneVRamTiles, tile_idx)[r]
    IN  IF obj.x_flip THEN [c \in 1 .. 8 |-> ids[9 - c]] ELSE ids

\* the row an object is expected to show on the drawn line: for an 8x16 object
\* with y_flip, sprite row 15 - (L - (y_pos - 16))
ExpectedRow(obj) ==
    IF scene.obj_size = "Dim8x16" /\ obj.y_flip
    THEN SpriteRow(obj, 15 - (ppu.line - (obj.y_pos - 16)))
    ELSE pixel_row(obj, ppu.line, scene.obj_size, SceneVRamTiles)

IrqNew == [ state |-> "irq", raised |-> {}, fresh |-> {}, before |-> {} ]

IrqTimaValues == {254, 255}

IrqPpus ==
    { PpuNew,
      [PpuNew EXCEPT !.lcd_enabled = TRUE, !.mode = "ScanlineVRAM",
                     !.cycles_in_mode = PixelTransferCycles - 12,
                     !.lcd_status.mode_0_int_select = TRUE] }

InitIrq ==
    /\ cpu \in { [CpuNew EXCEPT !.ime = ime] : ime \in {"Enabled", "Disabled"} }
    /\ mmu \in { [MmuNew EXCEPT !.timer = [TimerNew("F256KiHz", TRUE) EXCEPT !.value = tima],
                                !.interrupts_enabled = ie,
                                !.interrupts_requested = requested] :
                 tima \in IrqTimaValues,
                 ie \in {{"Joypad"}, {"LcdStat", "Timer", "Joypad"}},
                 requested \in {{}, {"Joypad"}} }
    /\ ppu \in IrqPpus
    /\ ppu_ret = {}
    /\ obs = ObsNew
    /\ rom = <<>>
    /\ exec = IrqNew
    /\ lcdc_writes = 0
    /\ InitAux

\* one call of Cpu::step that fetches opcode (and imm)
DoIrqStep ==
    /\ mmu.divider.t_cycles_count < MaxIrqTCycles
    /\ \E opcode \in StepOpcodes : \E imm \in Immediates(opcode) :
        LET m == Step(Machine, opcode, imm)
        IN  /\ cpu' = m.cpu
            /\ mmu' = m.mmu
            /\ ppu' = m.ppu
            /\ ppu_ret' = m.ppu_ret
            /\ obs' = m.obs
            /\ exec' = [ state |-> "irq", raised |-> m.raised,
                         fresh |-> m.raised \ mmu.interrupts_requested,
                         before |-> exec.fresh ]
            /\ UNCHANGED <<rom, lcdc_writes, aux>>

NextIrq == DoIrqStep

SpecIrq == InitIrq /\ [][NextIrq]_vars

\* the T-cycle counts Cpu::step passes to Mmu::step
StepCharges == {4, 8, 12, 20}

\* C30: Mmu::step(t) advances the timer, the PPU and the divider by t and ORs
\* a timer overflow and the interrupts the PPU returned into IF (a divider
\* overflow requests nothing); a source a Cpu::step services was requested and
\* enabled before any Mmu::step call of that step, so a source its Mmu::step
\* calls request is not serviced in that step: step n+1 is the first that can.
C30_MmuStepThenNextStep ==
    /\ [][ \A t \in StepCharges :
            LET after == MmuStep(Machine, t)
                tu == TimerUpdate(mmu.timer, t)
                pu == PpuStep(ppu, t)
                du == TimerUpdate(mmu.divider, t)
            IN  /\ after.mmu.timer = tu[1]
                /\ after.ppu = pu[1]
                /\ after.mmu.divider = du[1]
                /\ after.mmu.interrupts_requested =
                        mmu.interrupts_requested
                            \cup (IF tu[2] THEN {"Timer"} ELSE {}) \cup pu[2] ]_vars
    /\ [][ /\ obs'.serviced \subseteq (mmu.interrupts_requested \cap mmu.interrupts_enabled)
           /\ exec'.fresh \cap obs'.serviced = {} ]_vars

\* a Cpu::step serviced a source that the Mmu::step calls of the step before
\* had requested, and that had not been requested when that step began
C30_Witness ==
    /\ exec.state = "irq"
    /\ exec.before \cap obs.serviced # {}


(***************************************************************************)
(* The PPU fed every T-cycle count a Cpu::step can pass to Mmu::step,      *)
(* from the LCD states a program reaches with writes of LCDC.              *)
(***************************************************************************)
\* the T-cycles of one frame
FrameCycles == VBlankLineCycles * TotalLines

\* the T-cycle counts of the Mmu::step calls: multiples of 4 up to the longest
\* instruction's (the interrupt dispatch charges 20)
PpuStepCycles == { 4 * k : k \in 1 .. (MaxInstructionCycles \div 4) }

\* the PPU after Ppu::new (LCD off), with the LCD switched on, switched off
\* again, and switched on again
CyclesPpus ==
    LET on == WriteLcdc(PpuNew, 128)
        off == WriteLcdc(on, 0)
    IN  { PpuNew, on, off, WriteLcdc(off, 128) }

InitPpuCycles ==
    /\ cpu = CpuNew
    /\ mmu = MmuNew
    /\ ppu \in CyclesPpus
    /\ ppu_ret = {}
    /\ obs = ObsNew
    /\ rom = <<>>
    /\ exec = [state |-> "idle", fed |-> 0]
    /\ lcdc_writes = 0
    /\ InitAux

\* one call of Ppu::step; exec.fed is the total of the T-cycle counts passed
\* so far, modulo the length of a frame
DoPpuCycles ==
    \E t \in PpuStepCycles :
        /\ ppu' = PpuStep(ppu, t)[1]
        /\ ppu_ret' = PpuStep(ppu, t)[2]
        /\ exec' = [state |-> "ppu_step", fed |-> (exec.fed + t) % FrameCycles]
        /\ UNCHANGED <<cpu, mmu, obs, rom, lcdc_writes, aux>>

NextPpuCycles == DoPpuCycles

SpecPpuCycles == InitPpuCycles /\ [][NextPpuCycles]_vars

\* the threshold of the current mode
ModeThreshold(p) ==
    CASE p.mode = "ScanlineOAM" -> OamScanCycles
      [] p.mode = "ScanlineVRAM" -> PixelTransferCycles
      [] p.mode = "HorizontalBlank" -> HBlankCycles
      [] p.mode = "VerticalBlank" -> VBlankLineCycles

\* the position of the PPU in the frame, in T-cycles since line 0 began its OAM scan
FramePosition(p) ==
    VBlankLineCycles * p.line
        + (CASE p.mode = "ScanlineVRAM" -> OamScanCycles
             [] p.mode = "HorizontalBlank" -> OamScanCycles + PixelTransferCycles
             [] OTHER -> 0)
        + p.cycles_in_mode

\* C31: with the LCD enabled, cycles_in_mode is below the threshold of the
\* current mode (80, 172, 204, 456) after every step, and, whatever the split
\* into steps of 4..24 T-cycles, the total fed to the PPU is congruent modulo
\* 70224 to 456*line + (80 in pixel transfer, 252 in H-blank) + cycles_in_mode,
\* counted from the position the LCD was switched on at: a transition
\* subtracts the threshold and keeps the residue.
C31_CycleAccounting ==
    /\ [](ppu.lcd_enabled =>
            /\ ppu.cycles_in_mode < ModeThreshold(ppu)
            /\ \E on \in { p \in CyclesPpus : p.lcd_enabled } :
                    FramePosition(ppu) = (FramePosition(on) + exec.fed) % FrameCycles)
    /\ [][ ppu.lcd_enabled =>
                \E t \in PpuStepCycles :
                    /\ exec'.fed = (exec.fed + t) % FrameCycles
                    /\ FramePosition(ppu') = (FramePosition(ppu) + t) % FrameCycles ]_vars

\* a step made a transition that left a residue in cycles_in_mode
C31_Witness ==
    /\ ppu.lcd_enabled
    /\ exec.state = "ppu_step"
    /\ ppu.mode = "HorizontalBlank"
    /\ ppu.line = 1
    /\ ppu.cycles_in_mode = 20
    /\ exec.fed = VBlankLineCycles + OamScanCycles + PixelTransferCycles + 20


\* the sum of the T-cycle counts a Cpu::step passed to Mmu::step
RECURSIVE SumCharged(_)
SumCharged(charged) ==
    IF charged = <<>> THEN 0 ELSE Head(charged) + SumCharged(Tail(charged))

\* C32: in every CPU step the T-cycles passed to mmu.step, which the divider's
\* accumulator counts, add up to the value step returns: 4 for a halted step,
\* which leaves PC and every register unchanged, t for an instruction of t
\* T-cycles, and t + 20 when the step serviced an interrupt.
C32_ChargedEqualsReturned ==
    [][ /\ SumCharged(obs'.charged) = obs'.ret
        /\ mmu'.divider.t_cycles_count = (mmu.divider.t_cycles_count + obs'.ret) % 65536
        /\ obs'.fetched = <<>> =>
                /\ obs'.ret = HaltedStepCycles
                /\ obs'.serviced = {}
                /\ cpu'.regs = cpu.regs
        /\ obs'.fetched # <<>> =>
                obs'.ret = ExecuteTCycles(obs'.fetched[1], 0, cpu.regs.f)
                            + (IF obs'.serviced # {} THEN InterruptDispatchCycles ELSE 0) ]_vars

\* a step serviced an interrupt, executed a NOP and returned 24
C32_Witness ==
    /\ obs.serviced # {}
    /\ obs.fetched = <<0>>
    /\ obs.charged = <<InterruptDispatchCycles, 4>>
    /\ obs.ret = InterruptDispatchCycles + 4


\* C33: while lcd_enabled is false a call of Ppu::step, whatever its t_cycles,
\* changes nothing of the PPU (mode, line, cycles_in_mode, both display
\* buffers) and returns the empty interrupt set, however many calls are made.
C33_LcdOffStepIsNoOp ==
    /\ [](~ppu.lcd_enabled => ppu_ret = {})
    /\ [][ (~ppu.lcd_enabled /\ exec'.fed # exec.fed) =>
                /\ ppu' = ppu
                /\ ppu_ret' = {} ]_vars

\* the LCD is off, in the state the switch-off left (H-blank, line 0, no cycles
\* accumulated), after calls that passed two H-blanks' worth of T-cycles
C33_Witness ==
    /\ ~ppu.lcd_enabled
    /\ exec.state = "ppu_step"
    /\ exec.fed = 2 * HBlankCycles
    /\ ppu.mode = "HorizontalBlank" /\ ppu.line = 0 /\ ppu.cycles_in_mode = 0


(***************************************************************************)
(* The real-time clock of an MBC3 cartridge: the clock registers hold      *)
(* values at the edges of their ranges (a program writes them), the wall   *)
(* clock jumps, the program latches the clock and writes the selected      *)
(* register.                                                               *)
(***************************************************************************)
\* seconds that pass between two looks at the clock: a second, a minute and a
\* second, a day, 512 days and a second
RtcElapsed == {1, 61, 86400, 512 * 86400 + 1}

\* the MBC3 cartridges the runs start from
RtcCarts ==
    { [Mbc3New(0) EXCEPT !.enable_ram_and_rtc = TRUE,
                         !.ram_bank_or_rtc_select = [rtc |-> select, idx |-> 0],
                         !.clock_registers.seconds = seconds,
                         !.clock_registers.minutes = minutes,
                         !.clock_registers.hours = hours,
                         !.clock_registers.days_low = days_low,
                         !.clock_registers.days_hi_bit = days_hi_bit,
                         !.clock_registers.day_counter_carry = carry] :
        select \in {"Seconds", "Hours", "DayCounterHiBits"},
        seconds \in {0, 59}, minutes \in {59}, hours \in {0, 23}, days_low \in {0, 255},
        days_hi_bit \in BOOLEAN, carry \in BOOLEAN }

\* bytes written to the selected clock register
RtcBytes == {0, 255}

InitRtc ==
    /\ cpu = CpuNew
    /\ mmu = MmuNew
    /\ ppu = PpuNew
    /\ ppu_ret = {}
    /\ obs = ObsNew
    /\ rom = <<>>
    /\ exec = [state |-> "rtc", elapses |-> 0]
    /\ lcdc_writes = 0
    /\ tim = TimNew
    /\ wall = 0
    /\ joy = JoyNew
    /\ mem = MemNew
    /\ io = IoNew
    /\ build = BuildNew
    /\ scene = SceneNew
    /\ cart \in RtcCarts

\* time passes
DoRtcElapse ==
    /\ exec.elapses < MaxRtcElapses
    /\ \E elapsed \in RtcElapsed : wall' = wall + elapsed
    /\ exec' = [exec EXCEPT !.elapses = @ + 1]
    /\ UNCHANGED <<cpu, mmu, ppu, ppu_ret, obs, rom, lcdc_writes, timer_aux, io_aux, cart>>

\* the program writes 0x00 or 0x01 to the latch range
DoRtcLatch == \E byte \in {0, 1} : CartWriteAt(24576, byte)

\* the program writes the selected clock register
DoRtcWrite == \E byte \in RtcBytes : CartWriteAt(40960, byte)

NextRtc == DoRtcElapse \/ DoRtcLatch \/ DoRtcWrite

SpecRtc == InitRtc /\ [][NextRtc]_vars

\* the clock registers as seconds since day 0, 00:00:00
RtcSeconds(r) ==
    r.seconds + 60 * r.minutes + 3600 * r.hours
        + 86400 * ((IF r.days_hi_bit THEN 256 ELSE 0) + r.days_low)

\* C34: an RTC update adds the elapsed whole seconds to the clock: seconds
\* mod 60, minutes mod 60, hours mod 24, a 9-bit day counter mod 512; it sets
\* the carry when the day count passes 511 and never clears it (a write of the
\* DaysHi register can); seconds < 60, minutes < 60, hours < 24 after every
\* update and every register write.
C34_RtcPropagates ==
    /\ [](/\ cart.clock_registers.seconds < 60
          /\ cart.clock_registers.minutes < 60
          /\ cart.clock_registers.hours < 24)
    /\ [][ cart'.clock_registers.update_calls # cart.clock_registers.update_calls =>
            LET r == cart.clock_registers
                u == cart'.clock_registers
                elapsed == wall - r.last_update_time
                total == RtcSeconds(r) + elapsed
            IN  /\ u.seconds = total % 60
                /\ u.minutes = (total \div 60) % 60
                /\ u.hours = (total \div 3600) % 24
                /\ (IF u.days_hi_bit THEN 256 ELSE 0) + u.days_low = (total \div 86400) % 512
                /\ u.day_counter_carry = (r.day_counter_carry \/ (total \div 86400) > 511) ]_vars

\* one second after day 511, 23:59:59 an update has wrapped every register to
\* 0 and the carry is set
C34_Witness ==
    /\ exec.state = "rtc"
    /\ wall = 1
    /\ cart.clock_registers.update_calls = 1
    /\ cart.clock_registers.last_update_time = 1
    /\ RtcSeconds(cart.clock_registers) = 0
    /\ cart.clock_registers.day_counter_carry


(***************************************************************************)
(* The stack and the AF pair: from a stack pointer in writable RAM the     *)
(* program pushes a word and pops it again, as a word or into AF; or AF is *)
(* set through Registers::set_r16.                                         *)
(***************************************************************************)
\* stack pointers: the initial one, the bottom of high RAM, work RAM, echo RAM
StackPointers == {65534, 65410, 49252, 64780}

\* the words pushed and set: every low byte under three high bytes
StackWords == { hi * 256 + lo : hi \in {0, 18, 255}, lo \in 0 .. 255 }

\* exec: the last call, the word it was given, the stack pointer before the
\* last push, the word the last pop returned
StackNew == [ state |-> "idle", word |-> 0, sp |-> 0, popped |-> 0 ]

InitStack ==
    /\ cpu \in { [CpuNew EXCEPT !.regs.sp = sp] : sp \in StackPointers }
    /\ mmu = MmuNew
    /\ ppu = PpuNew
    /\ ppu_ret = {}
    /\ obs = ObsNew
    /\ rom = <<>>
    /\ exec = StackNew
    /\ lcdc_writes = 0
    /\ InitAux

\* Cpu::push_u16(word)
DoPushU16 ==
    /\ exec.state = "idle"
    /\ \E word \in StackWords :
        LET m == push_u16(Machine, word)
        IN  /\ cpu' = m.cpu
            /\ mmu' = m.mmu
            /\ mem' = m.mem
            /\ exec' = [StackNew EXCEPT !.state = "pushed", !.word = word, !.sp = cpu.regs.sp]
    /\ UNCHANGED <<ppu, ppu_ret, obs, rom, lcdc_writes, timer_aux, cart_aux, joy, late_aux>>

\* Cpu::pop_u16
DoPopU16 ==
    /\ exec.state = "pushed"
    /\ LET popped == pop_u16(Machine)
       IN  /\ cpu' = popped[1].cpu
           /\ exec' = [exec EXCEPT !.state = "popped", !.popped = popped[2]]
    /\ UNCHANGED <<mmu, ppu, ppu_ret, obs, rom, lcdc_writes, aux>>

\* Cpu::pop_r16(R16::AF)
DoPopAf ==
    /\ exec.state = "pushed"
    /\ cpu' = pop_af(Machine).cpu
    /\ exec' = [exec EXCEPT !.state = "pop_af"]
    /\ UNCHANGED <<mmu, ppu, ppu_ret, obs, rom, lcdc_writes, aux>>

\* Registers::set_r16(R16::AF, word)
DoSetR16Af ==
    /\ exec.state = "idle"
    /\ \E word \in StackWords :
        /\ cpu' = set_r16_af(Machine, word).cpu
        /\ exec' = [StackNew EXCEPT !.state = "set_r16", !.word = word]
    /\ UNCHANGED <<mmu, ppu, ppu_ret, obs, rom, lcdc_writes, aux>>

NextStack == DoPushU16 \/ DoPopU16 \/ DoPopAf \/ DoSetR16Af

SpecStack == InitStack /\ [][NextStack]_vars

C36_StackDiscipline ==
    [][ /\ exec'.state = "pushed" =>
            LET after == Machine'
            IN  /\ cpu'.regs.sp = (cpu.regs.sp + 65534) % 65536
                /\ MmuReadByte(after, (cpu.regs.sp + 65535) % 65536) = exec'.word \div 256
                /\ MmuReadByte(after, (cpu.regs.sp + 65534) % 65536) = exec'.word % 256
        /\ exec'.state = "popped" =>
            LET before == Machine
            IN  /\ exec'.popped = MmuReadByte(before, cpu.regs.sp)
                                    + 256 * MmuReadByte(before, (cpu.regs.sp + 1) % 65536)
                /\ cpu'.regs.sp = (cpu.regs.sp + 2) % 65536
                /\ exec'.popped = exec.word
                /\ cpu'.regs.sp = exec.sp ]_vars

\* the word 0x12FE was pushed from SP = 0xC064 in work RAM and popped again
C36_Witness ==
    /\ exec.state = "popped"
    /\ exec.word = 4862
    /\ exec.popped = 4862
    /\ exec.sp = 49252
    /\ cpu.regs.sp = 49252
    /\ mem.work_ram[98] = 254
    /\ mem.work_ram[99] = 18


\* C37: for MBC1 and MBC3, after any sequence of bank-select writes the
\* selected ROM bank index is at least 1 and smaller than the number of ROM
\* banks of the cartridge, and a read of 0x4000..0x7FFF returns a byte (it
\* does not index outside the ROM bank array).
C37_RomBankInBounds ==
    (cart.kind \in {"Mbc1", "Mbc3"} /\ ~cart.panicked) =>
        /\ cart.rom_bank_idx >= 1
        /\ cart.rom_bank_idx < NumRomBanks
        /\ CartRead(cart, 16384) # <<>>
        /\ CartRead(cart, 32767) # <<>>


\* C38: with select mode All (Both: bits 5 and 4 written low), each of bits
\* 0..3 of a read of 0xFF00 is 0 when either of the two keys mapped to that
\* bit (A/Right, B/Left, Select/Up, Start/Down) is pressed, and 1 only when
\* both are released.
C38_BothSelectedEitherKey ==
    (joy.read # <<>> /\ mmu.joypad_select = "All") =>
        LET byte == joy.read[1]
            pressed == mmu.pressed_buttons
        IN  /\ ~Bit(byte, 0) <=> ("A" \in pressed \/ "Right" \in pressed)
            /\ ~Bit(byte, 1) <=> ("B" \in pressed \/ "Left" \in pressed)
            /\ ~Bit(byte, 2) <=> ("Select" \in pressed \/ "Up" \in pressed)
            /\ ~Bit(byte, 3) <=> ("Start" \in pressed \/ "Down" \in pressed)


(***************************************************************************)
(* The PPU under a CPU that keeps being stepped: every Cpu::step makes at  *)
(* least one Mmu::step call, and with it one Ppu::step call.               *)
(***************************************************************************)
SpecPpuCyclesFair == SpecPpuCycles /\ WF_vars(DoPpuCycles)

PpuModes == {"ScanlineOAM", "ScanlineVRAM", "HorizontalBlank", "VerticalBlank"}

\* C39: if the LCD is enabled and stays enabled and the CPU keeps being
\* stepped, no PPU mode is occupied forever; line reaches 144 with VBlank
\* requested infinitely often, and line returns to 0 infinitely often.
C39_PpuLiveness ==
    ([]ppu.lcd_enabled) =>
        /\ \A md \in PpuModes : []<>(ppu.mode # md)
        /\ []<>(ppu.line = VisibleLines /\ "Vblank" \in ppu_ret)
        /\ []<>(ppu.line = 0)

\* the LCD is on and the PPU, having been through a whole frame, requests
\* VBlank at line 144 again
C39_Witness ==
    /\ ppu.lcd_enabled
    /\ ppu.line = VisibleLines
    /\ ppu.mode = "VerticalBlank"
    /\ "Vblank" \in ppu_ret
    /\ exec.fed = VisibleLines * VBlankLineCycles


(***************************************************************************)
(* A halted CPU under a front end that keeps calling Cpu::step, with the   *)
(* LCD on and VBlank in IE, until the step that wakes it.                  *)
(***************************************************************************)
\* the PPU with the LCD on
LcdOn == WriteLcdc(PpuNew, 128)

ImeState == {"Disabled", "PendingEnable", "Enabled"}

\* IE with VBlank alone, and with every source
HaltEnables == { {"Vblank"}, InterruptKind }

\* the PPU a few lines before the vertical blank and in the H-blank of the
\* last visible line
HaltPpusBeforeVBlank ==
    { [LcdOn EXCEPT !.line = VisibleLines - 6, !.mode = "ScanlineOAM", !.cycles_in_mode = 0],
      [LcdOn EXCEPT !.line = VisibleLines - 1, !.mode = "HorizontalBlank",
                    !.cycles_in_mode = HBlankCycles - 12] }

\* the lines a halted CPU sleeps through in the longest halt
MaxHaltedLines == 12

\* the PPU at the start of a line MaxHaltedLines before the vertical blank
HaltPpuEarly ==
    [LcdOn EXCEPT !.line = VisibleLines - MaxHaltedLines, !.mode = "ScanlineOAM",
                  !.cycles_in_mode = 0]

\* the halted machines: HALT executed shortly before the vertical blank with
\* any IME and IE, and HALT executed right after EI MaxHaltedLines before it
HaltStarts ==
    { [ime |-> ime, ie |-> ie, ppu |-> p] :
        ime \in ImeState, ie \in HaltEnables, p \in HaltPpusBeforeVBlank }
        \cup { [ime |-> "PendingEnable", ie |-> {"Vblank"}, ppu |-> HaltPpuEarly] }

\* the opcodes the woken CPU fetches: NOP, EI
WakeOpcodes == {0, 251}

InitHalt ==
    /\ \E start \in HaltStarts :
        /\ cpu = [CpuNew EXCEPT !.is_halted = TRUE, !.ime = start.ime]
        /\ mmu = [MmuNew EXCEPT !.interrupts_enabled = start.ie]
        /\ ppu = start.ppu
    /\ ppu_ret = {}
    /\ obs = ObsNew
    /\ rom = <<>>
    /\ exec = ExecNew
    /\ lcdc_writes = 0
    /\ InitAux

\* one call of Cpu::step on the halted CPU
DoHaltedStep ==
    /\ cpu.is_halted
    /\ \E opcode \in WakeOpcodes : CpuStep(opcode, 0)

NextHalt == DoHaltedStep

SpecHalt == InitHalt /\ [][NextHalt]_vars

SpecHaltFair == SpecHalt /\ WF_vars(DoHaltedStep)

\* C40: a CPU halted while the LCD is enabled and VBlank is in IE eventually
\* leaves the halted state (and, not stepped again, stays out of it): the step
\* that ends the halt fetched an opcode. A step that leaves it halted advances the PPU by
\* 4 T-cycles and returns 4; the step that wakes it finds an enabled source
\* requested, and services it exactly when IME is Enabled.
C40_HaltedCpuWakes ==
    /\ ([](ppu.lcd_enabled /\ "Vblank" \in mmu.interrupts_enabled))
            => <>[](~cpu.is_halted /\ obs.was_halted /\ obs.fetched # <<>>)
    /\ [][ cpu.is_halted =>
             IF cpu'.is_halted
             THEN /\ obs'.fetched = <<>>
                  /\ obs'.ret = HaltedStepCycles
                  /\ obs'.serviced = {}
                  /\ FramePosition(ppu') = (FramePosition(ppu) + HaltedStepCycles) % FrameCycles
             ELSE /\ (mmu.interrupts_requested \cap mmu.interrupts_enabled) # {}
                  /\ (cpu.ime = "Enabled") <=> (obs'.serviced # {})
                  /\ obs'.serviced \subseteq {"Vblank"} ]_vars

\* halted right after EI, the CPU slept through MaxHaltedLines lines, and the
\* step after the VBlank request serviced it and fetched at 0x0040
C40_Witness ==
    /\ ~cpu.is_halted
    /\ obs.was_halted
    /\ obs.serviced = {"Vblank"}
    /\ obs.at_fetch.pc = 64
    /\ ppu.line = VisibleLines
    /\ mmu.divider.t_cycles_count
            = MaxHaltedLines * VBlankLineCycles + InterruptDispatchCycles + HaltedStepCycles

====
